---- MODULE Spec2Model ----
(***************************************************************************)
(* State-machine model of the offline face access controller:              *)
(*   - AccessController (src/src/access_control.py): rate limit, grant     *)
(*     lockout, active flag and access-period checks;                      *)
(*   - LockController (src/src/lock.py): relay, in-progress flag, unlock   *)
(*     worker threads, exit-button monitor;                                *)
(*   - FaceAccessSystem (src/src/main.py): recognition loop iteration and  *)
(*     exit-button callback;                                               *)
(*   - BLEProtocol (src/src/ble_server.py): HMAC/nonce validation, upsert  *)
(*     session, command handlers;                                          *)
(*   - CommandCharacteristic / ResponseCharacteristic                      *)
(*     (src/src/ble_server_real.py): length-prefixed receiver, dispatch,   *)
(*     connection events.                                                  *)
(*                                                                         *)
(* Time is the value time.time() returns, in seconds.  The clock advances  *)
(* in steps of TickStep seconds, so every timestamp of a run is            *)
(* StartTime + k * TickStep.                                               *)
(***************************************************************************)
EXTENDS Integers, Sequences, FiniteSets, TLC

\* ------------------------------------------------------------------ bounds

\* Seconds the clock advances per Tick.
TickStep == 20
\* Number of clock steps a run of the policy specification may take.
MaxTicks == 3
\* Number of clock steps a run of the pipeline specification may take.
PipeTicks == 1
\* Number of unlock worker threads that can exist at once in a run.
MaxWorkers == 2
\* Clock value when the process starts (time.time() is far from 0).
StartTime == 900

\* Configuration values (config.access.*, config.face.similarity_threshold).
max_attempts_per_minute == 2
cooldown_sec == 20
granted_lockout_sec == 40
similarity_threshold == 6
\* config.lock.button_debounce_ms
button_debounce_ms == 300
\* config.ble.max_photo_size, in bytes.
PhotoSize == 1
\* Number of photos a client sends into one session in a run.
MaxPhotos == 1
\* The chunked upload: config.ble.max_photo_size in bytes, the bytes a client
\* puts into one chunk, and the photos it sends into one session.
ChunkPhotoSize == 3
ChunkSize == 2
ChunkPhotos == 2
\* A session a client may overfill: the num_photos of its BEGIN_UPSERT and
\* the completed photos the client sends beyond that number.
SessionPhotos == 1
ExtraPhotos == 1

\* Size the nonce ledger may reach before it is cut down, and the size it is
\* cut down to (1000 and 500 in verify_hmac), scaled to the nonces of a run.
NonceLimit == 2
NonceKeep == 1
\* Number of distinct fresh nonces the clients use in a run.
MaxNonces == 3
\* frames the clients queue in a run
MaxFrames == 2
\* enrollments processed in a run, and photos of a session that yield an
\* embedding
MaxEnrollments == 1
MaxVectors == 2
\* MAX_NOTIFICATION_SIZE of ResponseCharacteristic (180 in the source), and
\* the characters of the longest response notified
MAX_NOTIFICATION_SIZE == 3
MaxMessage == 4
\* self._max_consecutive_errors where the recognition loop runs alongside
\* the lock and the button (10 in the source)
max_consecutive_errors == 2
\* self._max_consecutive_errors as __init__ sets it
MAX_CONSECUTIVE_ERRORS == 10
\* Clock steps that cover the backoff sleeps up to the last restart.
BackoffTicks == 20
\* cleanup() calls in a run.
MaxCleanups == 2
\* max_frame_errors of recognition_loop (30 in the source)
max_frame_errors == 2

\* ------------------------------------------------------- program constants

\* cutoff_time = current_time - 60.0
RateWindowSec == 60

None == "None"

\* recognition_loop: detections in a row needed before the embedding, and
\* the pixels a face may move between two of them.
FACE_STABLE_THRESHOLD == 3
FACE_POSITION_TOLERANCE == 50

\* last_face_pos = None, and a frame the detector found nobody in.
NoFace == <<-1, -1>>

Ids == {"e1", "e2"}

\* The employee argument when the matcher found nobody (Python's None).
NoEmployee ==
    [employee_id |-> None, is_active |-> FALSE,
     access_start |-> [ok |-> FALSE, t |-> 0],
     access_end |-> [ok |-> FALSE, t |-> 0]]

\* ------------------------------------------------------------------- state

VARIABLES
    now,                 \* the clock: what time.time() returns next
    \* AccessController
    last_attempt_time,   \* self.last_attempt_time
    attempt_timestamps,  \* self.attempt_timestamps : id -> list of times
    last_granted_time,   \* self.last_granted_time  : id -> time (0 when absent)
    call,                \* the last policy call: its inputs and what it returned
    acceptedLog,         \* history: id -> times at which check_rate_limit accepted
    grantLog,            \* history: id -> times recorded by record_granted_access
    \* LockController
    is_unlocking,        \* self._is_unlocking
    relay,               \* the state the GPIO line was last driven to
    workers,             \* the _do_unlock threads: slot -> [pc, cause]
    last_button_time,    \* self._last_button_time (ms)
    was_pressed,         \* was_pressed of _button_monitor_loop
    \* FaceAccessSystem
    callers,             \* the threads that call unlock(): name -> [pc, cause, wake]
    driveLog,            \* history: relay drives since the flag was last set
    cycle,               \* history: "never" | "open" | "closed" flag cycle
    relayCause,          \* history: what triggered the unlock that drove the
                         \* relay active last
    lastUnlock,          \* history: the last unlock() call: caller, the flag
                         \* it found, whether it went on to start a worker
    error_count,         \* self._error_count
    \* recognition_loop's locals
    consecutive_frame_errors, \* failed frame reads in a row
    face_stable_count,   \* detections in a row within the tolerance
    last_face_pos,       \* position of the face detected last, or NoFace
    frames,              \* history: the last frames the detector answered
                         \* for: the face, the count and how the iteration ended
    exits,               \* history: how the recognition_loop calls ended
    \* LockController, the GPIO side
    button_running,      \* self._button_running
    line_requested,      \* the lock's output line is requested, not released
    cleaning,            \* the cleanup() calls: where the one under way
                         \* stands and how many have returned
    \* BLEProtocol and the store
    admin_mode_enabled,  \* self.admin_mode_enabled
    hmac_enabled,        \* self.hmac_enabled
    shared_secret,       \* self.shared_secret
    max_photo_size,      \* self.max_photo_size
    current_session,     \* self.current_session
    photo_buffer,        \* self.photo_buffer: the bytes written
    used_nonces,         \* self.used_nonces
    employees,           \* tables employees and embeddings: id -> row
    notifying,           \* ResponseCharacteristic.notifying
    response,            \* what process_command returned last, and whether
                         \* the notification was sent
    acceptedNonces,      \* history: every nonce verify_hmac accepted
    begunOnConn,         \* history: BEGIN_UPSERT opened a session since the
                         \* last connection event
    \* CommandCharacteristic
    rx_buffer,           \* self._rx_buffer: sequence of bytes
    rx_state,            \* self._rx_state
    expected_len,        \* self._expected_len
    last_seq,            \* self._last_seq
    timeout_handle,      \* self._timeout_handle is set
    \* the client and the link
    wire,                \* bytes the client has queued and not yet written
    client_seq,          \* BLERegistrationClient._seq
    mustReconnect,       \* the client cut a payload off and will disconnect
    framesSent,          \* number of frames the clients have queued in the run
    onlyDuplicates,      \* history: they were valid frames or repetitions of
                         \* the frame before
    rolledOver,          \* history: a frame carried sequence number 255
    delivered,           \* history: payloads handed to process_command
    expected,            \* history: payloads of the valid frames fully sent
    wellFormed,          \* history: the client sent well-formed frames only
    \* Database and the enrollment processor
    foreign_keys,        \* PRAGMA foreign_keys of the connection (the default
                         \* the SQLite library was built with)
    db_employees,        \* table employees: id -> row
    db_embeddings,       \* table embeddings: set of rows
    enroll,              \* process_registration_photos: where it stands
    db_return,           \* the last call of the store and what it returned
    snapshot,            \* what get_active_employees_with_embeddings returned
                         \* last, and where the enrollment stood then
    enrollments,         \* number of enrollments started in the run
    \* ResponseCharacteristic
    last_message,        \* the argument of the last send_notification call
    chrc_value,          \* self.value: the bytes notified last
    signals,             \* history: the values the PropertiesChanged signals
                         \* of that call carried, in order
    \* FaceMatcher
    best_match           \* a find_best_match call: its arguments and, once it
                         \* has returned, its result

policyVars == <<last_attempt_time, attempt_timestamps, last_granted_time>>
policyHist == <<call, acceptedLog, grantLog>>
lockVars == <<is_unlocking, relay, workers, last_button_time, was_pressed,
              callers, driveLog, cycle, relayCause, lastUnlock>>
bleVars == <<admin_mode_enabled, hmac_enabled, shared_secret, max_photo_size,
             current_session, photo_buffer, used_nonces, employees,
             notifying, response, acceptedNonces, begunOnConn>>
receiverVars == <<rx_buffer, rx_state, expected_len, last_seq, timeout_handle>>
clientVars == <<wire, client_seq, mustReconnect, framesSent, onlyDuplicates,
                rolledOver, delivered, expected, wellFormed>>
egressVars == <<last_message, chrc_value, signals>>
gpioVars == <<button_running, line_requested, cleaning>>
loopVars == <<consecutive_frame_errors, face_stable_count, last_face_pos,
              frames, exits>>
storeVars == <<foreign_keys, db_employees, db_embeddings, enroll, db_return,
               snapshot, enrollments>>
vars == <<now, last_attempt_time, attempt_timestamps, last_granted_time,
          call, acceptedLog, grantLog,
          is_unlocking, relay, workers, last_button_time, was_pressed,
          callers, driveLog, cycle, relayCause, lastUnlock, error_count,
          admin_mode_enabled, hmac_enabled, shared_secret, max_photo_size,
          current_session, photo_buffer, used_nonces, employees,
          notifying, response, acceptedNonces, begunOnConn,
          rx_buffer, rx_state, expected_len, last_seq, timeout_handle,
          wire, client_seq, mustReconnect, framesSent, onlyDuplicates,
          rolledOver, delivered, expected, wellFormed,
          foreign_keys, db_employees, db_embeddings, enroll, db_return,
          snapshot, enrollments,
          last_message, chrc_value, signals, best_match,
          consecutive_frame_errors, face_stable_count, last_face_pos, frames,
          exits, button_running, line_requested, cleaning>>

\* ------------------------------------------------------- small helpers

Max(a, b) == IF a >= b THEN a ELSE b
Min(a, b) == IF a <= b THEN a ELSE b
Abs(x) == IF x < 0 THEN -x ELSE x

RECURSIVE SelectSeqGt(_, _)
\* [t for t in s if t > cutoff]
SelectSeqGt(s, cutoff) ==
    IF s = <<>> THEN <<>>
    ELSE IF Head(s) > cutoff
         THEN <<Head(s)>> \o SelectSeqGt(Tail(s), cutoff)
         ELSE SelectSeqGt(Tail(s), cutoff)

\* The AccessController's mutable fields as one record.
Policy ==
    [last_attempt_time  |-> last_attempt_time,
     attempt_timestamps |-> attempt_timestamps,
     last_granted_time  |-> last_granted_time]

\* A stored ISO-8601 timestamp string: datetime.fromisoformat succeeds on it
\* and yields instant t, or raises.
Iso(t) == [ok |-> TRUE, t |-> t]
BadIso == [ok |-> FALSE, t |-> 0]

\* A stored timestamp string that carries a UTC offset: fromisoformat yields
\* an aware datetime whose clock reading is t and whose utcoffset() is off.
\* Iso(t) carries none: its datetime has tzinfo None.
IsoTz(t, off) == [ok |-> TRUE, t |-> t, utcoffset |-> off]

\* if d.tzinfo is None: d = d.replace(tzinfo=timezone.utc)
replace_tzinfo_utc(d) ==
    IF "utcoffset" \in DOMAIN d THEN d
    ELSE [ok |-> d.ok, t |-> d.t, utcoffset |-> 0]

\* The instant an aware datetime denotes, as the comparison of two aware
\* datetimes reads it: the clock reading less the offset.
utc_instant(d) == d.t - d.utcoffset

\* datetime.fromisoformat(employee[key]) returns: the key is in the dict and
\* its string parses (KeyError, TypeError and ValueError otherwise).
parses(employee, key) == key \in DOMAIN employee /\ employee[key].ok

\* ------------------------------------------------------ AccessController

\* check_access_period with both bounds excluded from the window.
check_access_period_exclusive(employee, t) ==
    IF ~parses(employee, "access_start") \/ ~parses(employee, "access_end")
    THEN [ok |-> FALSE, reason |-> "period_error"]
    ELSE LET access_start == replace_tzinfo_utc(employee.access_start)
             access_end   == replace_tzinfo_utc(employee.access_end)
         IN  IF t <= utc_instant(access_start)
             THEN [ok |-> FALSE, reason |-> "not_yet_valid"]
             ELSE IF t >= utc_instant(access_end)
             THEN [ok |-> FALSE, reason |-> "expired"]
             ELSE [ok |-> TRUE, reason |-> "period_valid"]

\* check_access_period(employee, current_time): current_time is the aware
\* datetime of instant t.  Any exception of the parsing is caught and denied.
check_access_period(employee, t) ==
    IF ~parses(employee, "access_start") \/ ~parses(employee, "access_end")
    THEN [ok |-> FALSE, reason |-> "period_error"]
    ELSE LET access_start == replace_tzinfo_utc(employee.access_start)
             access_end   == replace_tzinfo_utc(employee.access_end)
         IN  IF t < utc_instant(access_start)
             THEN [ok |-> FALSE, reason |-> "not_yet_valid"]
             ELSE IF t > utc_instant(access_end)
             THEN [ok |-> FALSE, reason |-> "expired"]
             ELSE [ok |-> TRUE, reason |-> "period_valid"]

\* check_employee_active(employee): bool(employee.get('is_active', 0))
check_employee_active(employee) ==
    LET is_active == IF "is_active" \in DOMAIN employee
                     THEN employee.is_active ELSE FALSE
    IN  IF ~is_active
        THEN [ok |-> FALSE, reason |-> "deactivated"]
        ELSE [ok |-> TRUE, reason |-> "active"]

\* validate_access(employee): active flag first, then the period.
validate_access(employee, t) ==
    LET active == check_employee_active(employee)
        period == check_access_period(employee, t)
    IN  IF ~active.ok THEN active
        ELSE IF ~period.ok THEN period
        ELSE [ok |-> TRUE, reason |-> "granted"]

\* The timestamps check_rate_limit keeps for employee_id at time t.
PrunedTimestamps(P, employee_id, t) ==
    SelectSeqGt(P.attempt_timestamps[employee_id], t - RateWindowSec)

\* check_rate_limit with the count compared by > instead of >=.
check_rate_limit_off_by_one(P, employee_id, t) ==
    IF t - P.last_attempt_time < cooldown_sec
    THEN [ok |-> FALSE, reason |-> "cooldown", P |-> P]
    ELSE IF employee_id # None
    THEN LET kept == PrunedTimestamps(P, employee_id, t)
         IN  IF Len(kept) > max_attempts_per_minute
             THEN [ok |-> FALSE, reason |-> "rate_limit",
                   P |-> [P EXCEPT !.attempt_timestamps[employee_id] = kept]]
             ELSE [ok |-> TRUE, reason |-> "rate_ok",
                   P |-> [P EXCEPT !.attempt_timestamps[employee_id] =
                                        Append(kept, t),
                                   !.last_attempt_time = t]]
    ELSE [ok |-> TRUE, reason |-> "rate_ok",
          P |-> [P EXCEPT !.last_attempt_time = t]]

\* check_rate_limit with a cooldown that a rejected call starts anew.
check_rate_limit_sliding(P, employee_id, t) ==
    IF t - P.last_attempt_time < cooldown_sec
    THEN [ok |-> FALSE, reason |-> "cooldown",
          P |-> [P EXCEPT !.last_attempt_time = t]]
    ELSE IF employee_id # None
    THEN LET kept == PrunedTimestamps(P, employee_id, t)
         IN  IF Len(kept) >= max_attempts_per_minute
             THEN [ok |-> FALSE, reason |-> "rate_limit",
                   P |-> [P EXCEPT !.attempt_timestamps[employee_id] = kept]]
             ELSE [ok |-> TRUE, reason |-> "rate_ok",
                   P |-> [P EXCEPT !.attempt_timestamps[employee_id] =
                                        Append(kept, t),
                                   !.last_attempt_time = t]]
    ELSE [ok |-> TRUE, reason |-> "rate_ok",
          P |-> [P EXCEPT !.last_attempt_time = t]]

\* check_rate_limit(employee_id) called at time t on policy state P:
\* the answer and the policy state it leaves.
check_rate_limit(P, employee_id, t) ==
    IF t - P.last_attempt_time < cooldown_sec
    THEN [ok |-> FALSE, reason |-> "cooldown", P |-> P]
    ELSE IF employee_id # None
    THEN LET kept == PrunedTimestamps(P, employee_id, t)
         IN  IF Len(kept) >= max_attempts_per_minute
             THEN [ok |-> FALSE, reason |-> "rate_limit",
                   P |-> [P EXCEPT !.attempt_timestamps[employee_id] = kept]]
             ELSE [ok |-> TRUE, reason |-> "rate_ok",
                   P |-> [P EXCEPT !.attempt_timestamps[employee_id] =
                                        Append(kept, t),
                                   !.last_attempt_time = t]]
    ELSE [ok |-> TRUE, reason |-> "rate_ok",
          P |-> [P EXCEPT !.last_attempt_time = t]]

\* check_granted_lockout comparing with cooldown_sec instead of
\* granted_lockout_sec.
check_granted_lockout_cooldown(P, employee_id, t) ==
    IF t - P.last_granted_time[employee_id] < cooldown_sec
    THEN [ok |-> FALSE, reason |-> "recently_granted"]
    ELSE [ok |-> TRUE, reason |-> "no_lockout"]

\* check_granted_lockout(employee_id) called at time t.
check_granted_lockout(P, employee_id, t) ==
    IF t - P.last_granted_time[employee_id] < granted_lockout_sec
    THEN [ok |-> FALSE, reason |-> "recently_granted"]
    ELSE [ok |-> TRUE, reason |-> "no_lockout"]

\* record_granted_access(employee_id) called at time t.
record_granted_access(P, employee_id, t) ==
    [P EXCEPT !.last_granted_time[employee_id] = t]

\* The clock value of the i-th time read of a call that starts at clock n,
\* when the clock advances just before read number tickAt (0: not at all).
ReadTime(n, i, tickAt) ==
    IF tickAt # 0 /\ i >= tickAt THEN n + TickStep ELSE n

\* process_access_attempt with the rate limit checked before the lockout.
process_access_attempt_rate_first(P, employee, score, threshold, n, tickAt) ==
    IF employee.employee_id = None
    THEN [granted |-> FALSE, reason |-> "not_recognized", P |-> P,
          ran |-> <<>>, tend |-> n]
    ELSE IF score < threshold
    THEN [granted |-> FALSE, reason |-> "low_score", P |-> P,
          ran |-> <<>>, tend |-> n]
    ELSE
    LET id == employee.employee_id
        t1 == ReadTime(n, 1, tickAt)
        t2 == ReadTime(n, 2, tickAt)
        t3 == ReadTime(n, 3, tickAt)
        t4 == ReadTime(n, 4, tickAt)
        rate    == check_rate_limit(P, id, t1)
        lockout == check_granted_lockout(rate.P, id, t2)
        access  == validate_access(employee, t3)
    IN  IF ~rate.ok
        THEN [granted |-> FALSE, reason |-> rate.reason, P |-> rate.P,
              ran |-> <<"rate">>, tend |-> t1]
        ELSE IF ~lockout.ok
        THEN [granted |-> FALSE, reason |-> lockout.reason, P |-> rate.P,
              ran |-> <<"rate", "lockout">>, tend |-> t2]
        ELSE IF ~access.ok
        THEN [granted |-> FALSE, reason |-> access.reason, P |-> rate.P,
              ran |-> <<"rate", "lockout", "access">>,
              tend |-> IF access.reason = "deactivated" THEN t2 ELSE t3]
        ELSE [granted |-> TRUE, reason |-> "granted",
              P |-> record_granted_access(rate.P, id, t4),
              ran |-> <<"rate", "lockout", "access", "record">>,
              tend |-> t4]

\* process_access_attempt(employee, similarity_score, similarity_threshold)
\* on policy state P.  Its four clock reads are check_granted_lockout (1),
\* check_rate_limit (2), check_access_period (3), record_granted_access (4).
\* ran lists the checks that were executed, tend is the last clock read.
process_access_attempt(P, employee, score, threshold, n, tickAt) ==
    IF employee.employee_id = None
    THEN [granted |-> FALSE, reason |-> "not_recognized", P |-> P,
          ran |-> <<>>, tend |-> n]
    ELSE IF score < threshold
    THEN [granted |-> FALSE, reason |-> "low_score", P |-> P,
          ran |-> <<>>, tend |-> n]
    ELSE
    LET id == employee.employee_id
        t1 == ReadTime(n, 1, tickAt)
        t2 == ReadTime(n, 2, tickAt)
        t3 == ReadTime(n, 3, tickAt)
        t4 == ReadTime(n, 4, tickAt)
        lockout == check_granted_lockout(P, id, t1)
        rate    == check_rate_limit(P, id, t2)
        access  == validate_access(employee, t3)
    IN  IF ~lockout.ok
        THEN [granted |-> FALSE, reason |-> lockout.reason, P |-> P,
              ran |-> <<"lockout">>, tend |-> t1]
        ELSE IF ~rate.ok
        THEN [granted |-> FALSE, reason |-> rate.reason, P |-> rate.P,
              ran |-> <<"lockout", "rate">>, tend |-> t2]
        ELSE IF ~access.ok
        THEN [granted |-> FALSE, reason |-> access.reason, P |-> rate.P,
              ran |-> <<"lockout", "rate", "access">>,
              tend |-> IF access.reason = "deactivated" THEN t2 ELSE t3]
        ELSE [granted |-> TRUE, reason |-> "granted",
              P |-> record_granted_access(rate.P, id, t4),
              ran |-> <<"lockout", "rate", "access", "record">>,
              tend |-> t4]

\* ----------------------------------------------- inputs of the policy calls

LastTime == StartTime + MaxTicks * TickStep

\* Access windows of the employee rows handed to the policy: one that covers
\* the whole run, one that opens at the first clock step and closes before
\* the second.
Windows ==
    { <<StartTime - TickStep, LastTime + TickStep>>,
      <<StartTime + TickStep, StartTime + TickStep + 1>> }

EmployeeRows ==
    { [employee_id |-> i, is_active |-> a,
       access_start |-> Iso(w[1]), access_end |-> Iso(w[2])] :
      i \in Ids, a \in BOOLEAN, w \in Windows }

\* (employee, score) arguments: every row with a score at the threshold, one
\* row with a score just below it, and no employee at all.
AttemptInputs ==
    { <<e, similarity_threshold>> : e \in EmployeeRows }
    \cup { <<e, similarity_threshold - 1>> :
             e \in { r \in EmployeeRows : r.employee_id = "e1" /\ r.is_active
                                            /\ r.access_start.t < StartTime } }
    \cup { <<NoEmployee, similarity_threshold>> }

\* Where the clock may advance inside one process_access_attempt call.
TickPoints == {0, 4}

NoCall == [op |-> "none"]

\* ------------------------------------------------- policy specification

InitPolicy ==
    /\ now = StartTime
    /\ last_attempt_time = 0
    /\ attempt_timestamps = [i \in Ids |-> <<>>]
    /\ last_granted_time = [i \in Ids |-> 0]
    /\ call = NoCall
    /\ acceptedLog = [i \in Ids |-> <<>>]
    /\ grantLog = [i \in Ids |-> <<>>]

\* The clock advances, up to the time last.
Tick(last) ==
    /\ now + TickStep <= last
    /\ now' = now + TickStep
    /\ UNCHANGED <<policyVars, policyHist, lockVars, storeVars, bleVars,
                   receiverVars,
                   clientVars, egressVars, error_count, best_match, loopVars,
                   gpioVars>>

\* The clock advances by half the cooldown, up to the time last.
CooldownStep == cooldown_sec \div 2
ShortTick(last) ==
    /\ now + CooldownStep <= last
    /\ now' = now + CooldownStep
    /\ UNCHANGED <<policyVars, policyHist, lockVars, storeVars, bleVars,
                   receiverVars,
                   clientVars, egressVars, error_count, best_match, loopVars,
                   gpioVars>>

\* Installs policy state P as the AccessController's fields.
SetPolicy(P) ==
    /\ last_attempt_time' = P.last_attempt_time
    /\ attempt_timestamps' = P.attempt_timestamps
    /\ last_granted_time' = P.last_granted_time

\* Number of entries of the time list s that are later than cutoff.
CountAfter(s, cutoff) == Cardinality({ j \in 1 .. Len(s) : s[j] > cutoff })

\* A caller runs process_access_attempt(employee, score, threshold).
\* call keeps the inputs, the four clock reads, the policy state the call
\* found (pre) and, from the history, the time of the identity's previous
\* grant (prevGrant, 0 when there is none).
AttemptCall(employee, score, tickAt) ==
    LET r  == process_access_attempt(Policy, employee, score,
                                     similarity_threshold, now, tickAt)
        id == employee.employee_id
    IN  /\ tickAt # 0 => now + TickStep <= LastTime
        /\ SetPolicy(r.P)
        /\ now' = r.tend
        /\ call' = [op |-> "attempt", employee |-> employee, score |-> score,
                    t1 |-> ReadTime(now, 1, tickAt),
                    t2 |-> ReadTime(now, 2, tickAt),
                    t3 |-> ReadTime(now, 3, tickAt),
                    t4 |-> ReadTime(now, 4, tickAt),
                    pre |-> Policy,
                    prevGrant |-> IF id = None \/ grantLog[id] = <<>> THEN 0
                                  ELSE grantLog[id][Len(grantLog[id])],
                    granted |-> r.granted, reason |-> r.reason, ran |-> r.ran]
        /\ acceptedLog' =
               IF Len(r.ran) >= 3
               THEN [acceptedLog EXCEPT ![id] =
                        Append(@, ReadTime(now, 2, tickAt))]
               ELSE acceptedLog
        /\ grantLog' =
               IF r.granted
               THEN [grantLog EXCEPT ![id] = Append(@, ReadTime(now, 4, tickAt))]
               ELSE grantLog

\* A caller runs check_rate_limit(employee_id) directly.  prevCount is, from
\* the history, the number of calls accepted for the identity in the 60 s
\* before the call.
RateCall(employee_id) ==
    LET r == check_rate_limit(Policy, employee_id, now)
    IN  /\ SetPolicy(r.P)
        /\ call' = [op |-> "rate", employee_id |-> employee_id, t |-> now,
                    prevCount |-> IF employee_id = None THEN 0
                                  ELSE CountAfter(acceptedLog[employee_id],
                                                  now - RateWindowSec),
                    ok |-> r.ok, reason |-> r.reason]
        /\ acceptedLog' =
               IF r.ok /\ employee_id # None
               THEN [acceptedLog EXCEPT ![employee_id] = Append(@, now)]
               ELSE acceptedLog
        /\ UNCHANGED <<now, grantLog>>

PolicyAttempt ==
    /\ \E in \in AttemptInputs, tickAt \in TickPoints :
          AttemptCall(in[1], in[2], tickAt)
    /\ UNCHANGED <<lockVars, storeVars, bleVars, receiverVars, clientVars, egressVars, error_count, best_match, loopVars,
                   gpioVars>>

PolicyRate ==
    /\ \E employee_id \in Ids \cup {None} : RateCall(employee_id)
    /\ UNCHANGED <<lockVars, storeVars, bleVars, receiverVars, clientVars, egressVars, error_count, best_match, loopVars,
                   gpioVars>>

\* Stored timestamp strings of the rows handed to validate_access: without
\* an offset, with an offset east and west of UTC, and no ISO-8601 date.
PeriodStamps ==
    { Iso(StartTime), Iso(StartTime + TickStep),
      IsoTz(StartTime + 2 * TickStep, TickStep),
      IsoTz(StartTime + TickStep, 0 - TickStep),
      IsoTz(StartTime, 0),
      BadIso }

\* The dicts of a key that may be absent: one per value, and the empty one.
OptionalKey(key, values) == { key :> v : v \in values } \cup { <<>> }

\* Employee dicts handed to validate_access: every choice of the two stored
\* timestamps and of the active flag, each of the three keys possibly absent.
PeriodEmployees ==
    { [employee_id |-> "e1"] @@ s @@ e @@ a :
      s \in OptionalKey("access_start", PeriodStamps),
      e \in OptionalKey("access_end", PeriodStamps),
      a \in OptionalKey("is_active", BOOLEAN) }

\* A caller runs validate_access(employee, current_time) with the clock's
\* time; call keeps the dict, the time, the answer, and the answer
\* check_access_period gives for the same arguments.
ValidateCall(employee) ==
    LET r == validate_access(employee, now)
        p == check_access_period(employee, now)
    IN  /\ call' = [op |-> "validate", employee |-> employee, t |-> now,
                    ok |-> r.ok, reason |-> r.reason,
                    period_ok |-> p.ok, period_reason |-> p.reason]
        /\ UNCHANGED <<now, policyVars, acceptedLog, grantLog>>

PolicyValidate ==
    /\ \E employee \in PeriodEmployees : ValidateCall(employee)
    /\ UNCHANGED <<lockVars, storeVars, bleVars, receiverVars, clientVars, egressVars, error_count, best_match, loopVars,
                   gpioVars>>

NextPolicy ==
    \/ Tick(LastTime)
    \/ PolicyAttempt
    \/ PolicyRate

\* --------------------------------------------------------- FaceMatcher

\* Similarities are in tenths; similarity_threshold is on the same scale.
\* An embedding is the zero vector or a vector of some length in one of
\* eight directions of a plane, 45 degrees apart; Cosines[k + 1] is the
\* cosine of k * 45 degrees.
Cosines == <<10, 7, 0, -7, -10, -7, 0, 7>>
ZeroVector == [norm |-> 0, direction |-> 0]
Direction(k) == [norm |-> 1, direction |-> k]

\* np.clip(x, lo, hi)
clip(x, lo, hi) == IF x < lo THEN lo ELSE IF x > hi THEN hi ELSE x

\* cosine_similarity(embedding1, embedding2): 0 for a zero vector, else the
\* cosine of the angle between the two, clamped to [0, 1].
cosine_similarity(embedding1, embedding2) ==
    IF embedding1.norm = 0 \/ embedding2.norm = 0 THEN 0
    ELSE clip(Cosines[((embedding1.direction - embedding2.direction) % 8) + 1],
              0, 10)

NoBest == [employee_id |-> None, score |-> 0, display_name |-> None]

\* The loop over one employee's embeddings, from embedding j on; best is
\* (best_employee_id, best_score, best_display_name).  replace_ties is
\* FALSE in the source: only a greater similarity replaces the best.
RECURSIVE match_embeddings(_, _, _, _, _, _)
match_embeddings(query_embedding, employee, embeddings, j, best, replace_ties) ==
    IF j > Len(embeddings) THEN best
    ELSE LET similarity == cosine_similarity(query_embedding, embeddings[j])
             better == IF replace_ties THEN similarity >= best.score
                       ELSE similarity > best.score
         IN  match_embeddings(query_embedding, employee, embeddings, j + 1,
                 IF better
                 THEN [employee_id |-> employee.employee_id,
                       score |-> similarity,
                       display_name |-> employee.display_name]
                 ELSE best,
                 replace_ties)

\* The loop over the (employee, embeddings) pairs, from pair i on.
RECURSIVE match_employees(_, _, _, _, _)
match_employees(query_embedding, employee_embeddings, i, best, replace_ties) ==
    IF i > Len(employee_embeddings) THEN best
    ELSE match_employees(query_embedding, employee_embeddings, i + 1,
             match_embeddings(query_embedding, employee_embeddings[i][1],
                              employee_embeddings[i][2], 1, best,
                              replace_ties),
             replace_ties)

\* What find_best_match returns for the best the loops found.
check_threshold(best, threshold) ==
    IF best.score < threshold
    THEN [employee_id |-> None, score |-> best.score, display_name |-> None]
    ELSE best

\* find_best_match in which an equal similarity replaces the best so far.
find_best_match_last(threshold, query_embedding, employee_embeddings) ==
    check_threshold(match_employees(query_embedding, employee_embeddings, 1,
                                    NoBest, TRUE),
                    threshold)

\* find_best_match(query_embedding, employee_embeddings) of a FaceMatcher
\* whose similarity_threshold is threshold.
find_best_match(threshold, query_embedding, employee_embeddings) ==
    check_threshold(match_employees(query_embedding, employee_embeddings, 1,
                                    NoBest, FALSE),
                    threshold)

\* A find_best_match call that is not under way.
NoMatch ==
    [threshold |-> similarity_threshold, query_embedding |-> ZeroVector,
     employee_embeddings |-> <<>>, returned |-> TRUE, result |-> NoBest]

\* -------------------------------------------------------- LockController

Workers == 1 .. MaxWorkers
Callers == {"pipeline", "button"}

\* What triggered an unlock() call: the face decision or the exit button.
NoCause == [src |-> "none", granted |-> FALSE, reason |-> "none"]
ButtonCause == [src |-> "button", granted |-> TRUE, reason |-> "exit_button"]
FaceCause(granted, reason) ==
    [src |-> "face", granted |-> granted, reason |-> reason]

\* The log_access_attempt call a caller made for the decision it is acting
\* on: the row it passed and whether the INSERT was committed.
NoAudit == [event_type |-> "none", result |-> "none", stored |-> FALSE]

\* A thread that calls unlock(): where it stands, what it acts on, when its
\* sleep ends, its audit call and (history, for the button callback) what
\* the recognition loop was doing when the press was accepted.
IdleCaller ==
    [pc |-> "idle", cause |-> NoCause, wake |-> 0, audit |-> NoAudit,
     during |-> "none"]

\* Database.log_access_attempt(event_type, result, ...): the INSERT and the
\* commit, either of which can raise.
log_access_attempt(event_type, result, fails) ==
    [raised |-> fails,
     row |-> [event_type |-> event_type, result |-> result, stored |-> ~fails]]
NoWorker == [pc |-> "none", cause |-> NoCause]

\* No cleanup() call is under way and none has returned.
NoCleanup == [pc |-> "none", returned |-> 0]

InitLockFields(pipeline_pc) ==
    /\ is_unlocking = FALSE
    /\ relay = FALSE
    /\ workers = [w \in Workers |-> NoWorker]
    /\ last_button_time = 0
    /\ was_pressed = FALSE
    /\ callers = [c \in Callers |->
                     IF c = "pipeline"
                     THEN [IdleCaller EXCEPT !.pc = pipeline_pc]
                     ELSE IdleCaller]
    /\ error_count = 0
    /\ consecutive_frame_errors = 0
    /\ face_stable_count = 0
    /\ last_face_pos = NoFace
    /\ frames = <<>>
    /\ exits = <<>>
    /\ button_running = TRUE
    /\ line_requested = TRUE
    /\ cleaning = NoCleanup
    /\ driveLog = <<>>
    /\ cycle = "never"
    /\ relayCause = NoCause
    /\ lastUnlock = [caller |-> "none", flag |-> FALSE, start |-> FALSE]

\* The system at its start, the recognition loop at pipeline_pc and no
\* find_best_match call under way.
InitLockFrom(pipeline_pc) ==
    /\ InitLockFields(pipeline_pc)
    /\ best_match = NoMatch

\* The lock with the recognition loop running on an open camera.
InitLock == InitLockFrom("idle")

\* The caller's state once unlock() has returned: the recognition loop goes
\* on to asyncio.sleep(cooldown_sec), the button callback returns to the
\* monitor loop.
Returned(c) ==
    IF c = "pipeline"
    THEN [pc |-> "sleep", cause |-> NoCause, wake |-> now + cooldown_sec,
          audit |-> NoAudit, during |-> "none"]
    ELSE IdleCaller

\* unlock() that sets the flag without looking at it.
unlock_unguarded(flag) == [start |-> TRUE, flag |-> TRUE]

\* The locked section of unlock(): with the flag set the call returns, else
\* it sets the flag and goes on to start a worker.
unlock_guarded(flag) ==
    IF flag THEN [start |-> FALSE, flag |-> flag]
    ELSE [start |-> TRUE, flag |-> TRUE]

\* Caller c runs the locked section of unlock().
UnlockEnter(c) ==
    LET r == unlock_guarded(is_unlocking)
    IN  /\ callers[c].pc = "unlock"
        /\ is_unlocking' = r.flag
        /\ callers' = [callers EXCEPT ![c] =
                          IF r.start THEN [@ EXCEPT !.pc = "spawn"]
                          ELSE Returned(c)]
        /\ driveLog' = IF ~is_unlocking /\ r.flag THEN <<>> ELSE driveLog
        /\ cycle' = IF ~is_unlocking /\ r.flag THEN "open" ELSE cycle
        /\ lastUnlock' = [caller |-> c, flag |-> is_unlocking,
                          start |-> r.start]
        /\ UNCHANGED <<now, policyVars, policyHist, relay, workers,
                       last_button_time, was_pressed, relayCause>>
        /\ UNCHANGED <<storeVars, bleVars, receiverVars, clientVars, egressVars, error_count, best_match, loopVars,
                   gpioVars>>

\* Caller c starts the _do_unlock thread and returns from unlock().  The
\* threads are told apart by nothing but their place in workers, so the new
\* one takes the first free place.
UnlockSpawn(c) ==
    /\ callers[c].pc = "spawn"
    /\ \E w \in Workers :
          /\ workers[w].pc = "none"
          /\ \A v \in Workers : v < w => workers[v].pc # "none"
          /\ workers' = [workers EXCEPT
                            ![w] = [pc |-> "unlock", cause |-> callers[c].cause]]
    /\ callers' = [callers EXCEPT ![c] = Returned(c)]
    /\ UNCHANGED <<now, policyVars, policyHist, is_unlocking, relay,
                   last_button_time, was_pressed, driveLog, cycle, relayCause,
                   lastUnlock>>
    /\ UNCHANGED <<storeVars, bleVars, receiverVars, clientVars, egressVars, error_count, best_match, loopVars,
                   gpioVars>>

\* _set_lock_state that drives the line whether it is requested or not.
set_lock_state_always(requested, state, unlock) == unlock

\* _set_lock_state(unlock) in hardware mode, the relay at state: the line
\* is driven; on a released line set_value raises, the exception is caught
\* and logged and the relay stays as it is.
set_lock_state(requested, state, unlock) ==
    IF requested THEN unlock ELSE state

\* _do_unlock: _set_lock_state(True), then the thread sleeps.
WorkerUnlock(w) ==
    /\ workers[w].pc = "unlock"
    /\ relay' = set_lock_state(line_requested, relay, TRUE)
    /\ relayCause' = IF line_requested THEN workers[w].cause ELSE relayCause
    /\ driveLog' = IF line_requested THEN Append(driveLog, TRUE) ELSE driveLog
    /\ workers' = [workers EXCEPT ![w].pc = "relock"]
    /\ UNCHANGED <<now, policyVars, policyHist, is_unlocking,
                   last_button_time, was_pressed, callers, cycle,
                   lastUnlock>>
    /\ UNCHANGED <<storeVars, bleVars, receiverVars, clientVars, egressVars, error_count, best_match, loopVars,
                   gpioVars>>

\* _do_unlock: the sleep is over, _set_lock_state(False).
WorkerRelock(w) ==
    /\ workers[w].pc = "relock"
    /\ relay' = set_lock_state(line_requested, relay, FALSE)
    /\ driveLog' = IF line_requested THEN Append(driveLog, FALSE) ELSE driveLog
    /\ workers' = [workers EXCEPT ![w].pc = "finally"]
    /\ UNCHANGED <<now, policyVars, policyHist, is_unlocking,
                   last_button_time, was_pressed, callers, cycle, relayCause,
                   lastUnlock>>
    /\ UNCHANGED <<storeVars, bleVars, receiverVars, clientVars, egressVars, error_count, best_match, loopVars,
                   gpioVars>>

\* _do_unlock: the finally block clears the flag and the thread ends.
WorkerFinish(w) ==
    /\ workers[w].pc = "finally"
    /\ is_unlocking' = FALSE
    /\ cycle' = IF is_unlocking THEN "closed" ELSE cycle
    /\ workers' = [workers EXCEPT ![w] = NoWorker]
    /\ UNCHANGED <<now, policyVars, policyHist, relay, last_button_time,
                   was_pressed, callers, driveLog, relayCause,
                   lastUnlock>>
    /\ UNCHANGED <<storeVars, bleVars, receiverVars, clientVars, egressVars, error_count, best_match, loopVars,
                   gpioVars>>

\* _on_exit_button_pressed that gives up when the event cannot be logged.
on_exit_button_pressed_strict(fails) ==
    LET logged == log_access_attempt("exit_button", "granted", fails)
    IN  IF logged.raised THEN IdleCaller
        ELSE [pc |-> "unlock", cause |-> ButtonCause, wake |-> 0,
              audit |-> logged.row, during |-> "none"]

\* _on_exit_button_pressed up to its unlock() call: the event is logged, an
\* exception of the log call is caught, and the callback goes on to unlock().
on_exit_button_pressed(fails) ==
    LET logged == log_access_attempt("exit_button", "granted", fails)
    IN  [pc |-> "unlock", cause |-> ButtonCause, wake |-> 0,
         audit |-> logged.row, during |-> "none"]

\* One poll of _button_monitor_loop reading is_pressed: on a rising edge
\* outside the debounce time the callback _on_exit_button_pressed starts (it
\* logs the event and then calls unlock()).
ButtonPoll(is_pressed) ==
    LET current_time == now * 1000
        fire == /\ is_pressed /\ ~was_pressed
                /\ current_time - last_button_time > button_debounce_ms
    IN  /\ button_running
        /\ callers["button"].pc = "idle"
        /\ is_pressed # was_pressed
        /\ last_button_time' = IF fire THEN current_time ELSE last_button_time
        /\ was_pressed' = is_pressed
        /\ \E fails \in BOOLEAN :
              callers' = IF fire
                         THEN [callers EXCEPT
                                  !["button"] =
                                      [on_exit_button_pressed(fails) EXCEPT
                                          !.during = callers["pipeline"].pc]]
                         ELSE callers
        /\ UNCHANGED <<now, policyVars, policyHist, is_unlocking, relay,
                       workers, driveLog, cycle, relayCause,
                   lastUnlock>>
        /\ UNCHANGED <<storeVars, bleVars, receiverVars, clientVars, egressVars, error_count, best_match, loopVars,
                   gpioVars>>


\* cleanup() is called and runs up to its first GPIO call:
\* stop_button_monitor() clears self._button_running and joins the monitor
\* thread for at most 1 s, so a callback under way may still go on.
CleanupStart ==
    /\ cleaning.pc = "none"
    /\ cleaning.returned < MaxCleanups
    /\ button_running' = FALSE
    /\ cleaning' = [cleaning EXCEPT !.pc = "force_lock"]
    /\ UNCHANGED <<now, policyVars, policyHist, lockVars, storeVars, bleVars,
                   receiverVars, clientVars, egressVars, error_count,
                   best_match, loopVars, line_requested>>

\* cleanup(): self._set_lock_state(False).
CleanupForceLock ==
    /\ cleaning.pc = "force_lock"
    /\ relay' = set_lock_state(line_requested, relay, FALSE)
    /\ driveLog' = IF line_requested THEN Append(driveLog, FALSE) ELSE driveLog
    /\ cleaning' = [cleaning EXCEPT !.pc = "release"]
    /\ UNCHANGED <<now, policyVars, policyHist, is_unlocking, workers,
                   last_button_time, was_pressed, callers, cycle, relayCause,
                   lastUnlock>>
    /\ UNCHANGED <<storeVars, bleVars, receiverVars, clientVars, egressVars,
                   error_count, best_match, loopVars, button_running,
                   line_requested>>

\* cleanup(): the button line and the lock line are released (and the chip
\* closed), then the call returns.  What a released output line does is up
\* to the GPIO driver: the relay keeps the state it was driven to last
\* (kept) or falls back to inactive.  A line released before is not
\* touched.
CleanupRelease(kept) ==
    /\ cleaning.pc = "release"
    /\ ~line_requested => kept
    /\ line_requested' = FALSE
    /\ relay' = IF kept THEN relay ELSE FALSE
    /\ cleaning' = [pc |-> "none", returned |-> cleaning.returned + 1]
    /\ UNCHANGED <<now, policyVars, policyHist, is_unlocking, workers,
                   last_button_time, was_pressed, callers, driveLog, cycle,
                   relayCause, lastUnlock>>
    /\ UNCHANGED <<storeVars, bleVars, receiverVars, clientVars, egressVars,
                   error_count, best_match, loopVars, button_running>>

\* ------------------------------------------------------ FaceAccessSystem

\* (employee, score) pairs the matcher and the store hand to the recognition
\* loop.
PipelineInputs == { in \in AttemptInputs : in[1].employee_id \in {"e1", None} }

\* recognition_loop that goes on to unlock whatever the decision was.
after_decision_always(granted) == "check"

\* recognition_loop after the decision was logged: `if granted:` leads to the
\* is_unlocking() check, else to asyncio.sleep(0.1).
after_decision(granted) == IF granted THEN "check" ELSE "denied"

\* recognition_loop with the log call outside its try block: an exception
\* reaches the handler of the iteration, which sleeps 0.5 s.
after_audit_propagates(raised, granted) ==
    IF raised THEN "error_sleep" ELSE after_decision(granted)

\* recognition_loop from the log call on: an exception of
\* log_access_attempt is caught and logged, then the decision is acted on.
after_audit(raised, granted) == after_decision(granted)

\* result= with the decision ignored.
audit_result_granted(granted) == "granted"

\* result='granted' if granted else 'denied'
audit_result(granted) == IF granted THEN "granted" ELSE "denied"

\* Faces the detector reports, by the corner (x, y) of the largest box: the
\* second within the tolerance of the first and of the third, the third
\* exactly the tolerance away from the first.
FacePositions ==
    { <<0, 0>>,
      <<FACE_POSITION_TOLERANCE - 1, FACE_POSITION_TOLERANCE - 1>>,
      <<0, FACE_POSITION_TOLERANCE>> }

\* recognition_loop: dx < FACE_POSITION_TOLERANCE and dy < FACE_POSITION_TOLERANCE
within_tolerance(face, last) ==
    /\ Abs(face[1] - last[1]) < FACE_POSITION_TOLERANCE
    /\ Abs(face[2] - last[2]) < FACE_POSITION_TOLERANCE

\* The counter stops growing one past the threshold: the loop only ever
\* compares it with the threshold.
StableCap == FACE_STABLE_THRESHOLD + 1

\* The stability check that counts every face, wherever it is.
stable_count_anywhere(last, count, face) == Min(count + 1, StableCap)

\* recognition_loop, the stability check: the new face_stable_count for a
\* detected face, last_face_pos and the count so far.
stable_count(last, count, face) ==
    IF last # NoFace
    THEN IF within_tolerance(face, last) THEN Min(count + 1, StableCap) ELSE 1
    ELSE 1

\* The history keeps the frames of one stability window.
FrameWindow == FACE_STABLE_THRESHOLD

\* The history with one more frame.
Framed(face, count, step) ==
    LET all == Append(frames, [face |-> face, count |-> count, step |-> step])
    IN  IF Len(all) > FrameWindow THEN Tail(all) ELSE all

\* recognition_loop from find_best_match to the audit log of an iteration:
\* match, employee lookup, process_access_attempt, log_access_attempt.
DecisionAt(pc, inputs) ==
    /\ callers["pipeline"].pc = pc
    /\ \E in \in inputs : AttemptCall(in[1], in[2], 0)
    /\ \E fails \in BOOLEAN :
          LET result == audit_result(call'.granted)
              logged == log_access_attempt("face_recognition", result, fails)
          IN  callers' = [callers EXCEPT !["pipeline"] =
                  [pc |-> after_audit(logged.raised, call'.granted),
                   cause |-> FaceCause(call'.granted, call'.reason),
                   wake |-> now',
                   audit |-> logged.row,
                   during |-> "none"]]
    /\ UNCHANGED <<is_unlocking, relay, workers, last_button_time,
                   was_pressed, driveLog, cycle, relayCause,
                   lastUnlock>>
    /\ UNCHANGED <<storeVars, bleVars, receiverVars, clientVars, egressVars, error_count, best_match,
                   gpioVars>>

\* The decision of an iteration that is not split into steps.
PipelineDecision(inputs) == DecisionAt("idle", inputs)

\* recognition_loop after a decision on a face: the tracker is reset, after
\* a grant with the position forgotten, after a denial with it kept.
TrackerAfterDecision(face, count) ==
    /\ consecutive_frame_errors' = 0
    /\ face_stable_count' = 0
    /\ last_face_pos' = IF call'.granted THEN NoFace ELSE face
    /\ frames' = Framed(face, count, "decided")
    /\ UNCHANGED exits

\* The iterations of recognition_loop from the first frame of a face that
\* stands still to the decision on it: FACE_STABLE_THRESHOLD frames with
\* the face at one place, the last of them decided on.
PipelineDecide ==
    LET face == <<0, 0>>
    IN  /\ PipelineDecision(PipelineInputs)
        /\ consecutive_frame_errors' = 0
        /\ face_stable_count' = 0
        /\ last_face_pos' = IF call'.granted THEN NoFace ELSE face
        /\ frames' = [i \in 1 .. FACE_STABLE_THRESHOLD |->
                         [face |-> face, count |-> i,
                          step |-> IF i < FACE_STABLE_THRESHOLD
                                   THEN "waiting" ELSE "decided"]]
        /\ UNCHANGED exits

\* The matches the frame by frame loop decides on: an employee the policy
\* can grant, and nobody.
LoopInputs ==
    { in \in PipelineInputs :
         /\ in[2] = similarity_threshold
         /\ in[1].employee_id = None
             \/ (in[1].is_active /\ in[1].access_start.t < StartTime
                    /\ in[1].access_end.t > LastTime) }

\* One iteration of recognition_loop on a frame with a face that is stable:
\* aligned, embedded, matched and decided on.
LoopDecide(face) ==
    LET count == stable_count(last_face_pos, face_stable_count, face)
    IN  /\ count >= FACE_STABLE_THRESHOLD
        /\ PipelineDecision(LoopInputs)
        /\ TrackerAfterDecision(face, count)

\* How an iteration that detected a face and did not get to a decision ends:
\* the face is not stable yet, the aligner or the embedder returned None,
\* or a later step raised and the handler of the iteration caught it.
FrameSteps(count) ==
    IF count < FACE_STABLE_THRESHOLD THEN {"waiting"}
    ELSE {"align_failed", "embed_failed", "raised"}

\* recognition_loop after the embedder returned None: `continue`, the
\* counter as it is.
after_embedding_failed(count) == count

\* One iteration of recognition_loop on a frame with a face that does not
\* get to a decision.
LoopFace(face, step) ==
    LET count == stable_count(last_face_pos, face_stable_count, face)
    IN  /\ callers["pipeline"].pc = "idle"
        /\ step \in FrameSteps(count)
        /\ consecutive_frame_errors' = 0
        /\ face_stable_count' = IF step = "embed_failed"
                                THEN after_embedding_failed(count) ELSE count
        /\ last_face_pos' = face
        /\ frames' = Framed(face, count, step)
        /\ callers' = [callers EXCEPT !["pipeline"] =
                          IF step = "raised"
                          THEN [IdleCaller EXCEPT !.pc = "error_sleep",
                                                  !.wake = now]
                          ELSE @]
        /\ UNCHANGED <<now, policyVars, policyHist, is_unlocking, relay,
                       workers, last_button_time, was_pressed, driveLog, cycle,
                       relayCause, lastUnlock, error_count, exits>>
        /\ UNCHANGED <<storeVars, bleVars, receiverVars, clientVars, egressVars,
                       best_match, gpioVars>>

\* One iteration of recognition_loop on a frame the detector finds nobody
\* in.
LoopNoFace ==
    /\ callers["pipeline"].pc = "idle"
    /\ consecutive_frame_errors' = 0
    /\ face_stable_count' = 0
    /\ last_face_pos' = NoFace
    /\ frames' = Framed(NoFace, 0, "no_face")
    /\ UNCHANGED <<now, policyVars, policyHist, is_unlocking, relay, workers,
                   last_button_time, was_pressed, callers, driveLog, cycle,
                   relayCause, lastUnlock, error_count, exits>>
    /\ UNCHANGED <<storeVars, bleVars, receiverVars, clientVars, egressVars,
                   best_match, gpioVars>>

\* recognition_loop: `if self.lock.is_unlocking()` skips the unlock() call.
PipelineCheck ==
    /\ callers["pipeline"].pc = "check"
    /\ callers' = [callers EXCEPT !["pipeline"] =
                      IF is_unlocking THEN Returned("pipeline")
                      ELSE [@ EXCEPT !.pc = "unlock"]]
    /\ UNCHANGED <<now, policyVars, policyHist, is_unlocking, relay, workers,
                   last_button_time, was_pressed, driveLog, cycle, relayCause,
                   lastUnlock>>
    /\ UNCHANGED <<storeVars, bleVars, receiverVars, clientVars, egressVars, error_count, best_match, loopVars,
                   gpioVars>>

\* recognition_loop: asyncio.sleep(cooldown_sec) after a grant, the sleep
\* of 0.1 s after a denial or the sleep of 0.5 s after an exception of the
\* iteration is over; _recognition_loop_wrapper: the backoff sleep is over
\* and recognition_loop is called again.
PipelineWake ==
    /\ callers["pipeline"].pc \in {"sleep", "denied", "error_sleep", "backoff"}
    /\ now >= callers["pipeline"].wake
    /\ callers' = [callers EXCEPT !["pipeline"] =
                      IF @.pc = "backoff" THEN [IdleCaller EXCEPT !.pc = "open"]
                      ELSE IdleCaller]
    /\ UNCHANGED <<now, policyVars, policyHist, is_unlocking, relay, workers,
                   last_button_time, was_pressed, driveLog, cycle, relayCause,
                   lastUnlock>>
    /\ UNCHANGED <<storeVars, bleVars, receiverVars, clientVars, egressVars, error_count, best_match, loopVars,
                   gpioVars>>

\* restart_delay and max_restart_delay of _recognition_loop_wrapper
restart_delay == 5
max_restart_delay == 60

\* The history with one more recognition_loop call, the last ExitWindow
\* kept.
ExitWindow == MAX_CONSECUTIVE_ERRORS + 1
Exited(how) ==
    LET all == Append(exits, how)
    IN  IF Len(all) > ExitWindow THEN Tail(all) ELSE all

\* _recognition_loop_wrapper that stops only above the limit.
after_loop_error_above(limit, count, time) ==
    IF count > limit
    THEN [IdleCaller EXCEPT !.pc = "terminated"]
    ELSE [IdleCaller EXCEPT !.pc = "backoff",
                            !.wake = time + Min(restart_delay * (2 ^ (count - 1)),
                                                max_restart_delay)]

\* _recognition_loop_wrapper, the `except Exception` branch with
\* self._error_count already incremented to count: at the limit the wrapper
\* stops for good, below it sleeps min(restart_delay * 2 ** (count - 1),
\* max_restart_delay) seconds and calls recognition_loop again.
after_loop_error(limit, count, time) ==
    IF count >= limit
    THEN [IdleCaller EXCEPT !.pc = "terminated"]
    ELSE [IdleCaller EXCEPT !.pc = "backoff",
                            !.wake = time + Min(restart_delay * (2 ^ (count - 1)),
                                                max_restart_delay)]

\* recognition_loop opens the camera and sets up its locals.  When the
\* camera does not open the RuntimeError reaches _recognition_loop_wrapper,
\* which counts it and either stops the recognition for good or sleeps
\* before it calls recognition_loop again; limit is
\* self._max_consecutive_errors.
PipelineOpenWith(limit, opened) ==
    LET count == error_count + 1
    IN  /\ callers["pipeline"].pc = "open"
        /\ error_count' = IF opened THEN error_count ELSE count
        /\ callers' = [callers EXCEPT !["pipeline"] =
               IF opened THEN IdleCaller
               ELSE after_loop_error(limit, count, now)]
        /\ consecutive_frame_errors' =
              IF opened THEN 0 ELSE consecutive_frame_errors
        /\ face_stable_count' = IF opened THEN 0 ELSE face_stable_count
        /\ last_face_pos' = IF opened THEN NoFace ELSE last_face_pos
        /\ exits' = IF opened THEN exits ELSE Exited("error")
        /\ UNCHANGED <<now, policyVars, policyHist, is_unlocking, relay,
                       workers, last_button_time, was_pressed, driveLog, cycle,
                       relayCause, lastUnlock>>
        /\ UNCHANGED <<storeVars, bleVars, receiverVars, clientVars, egressVars,
                       best_match, frames, gpioVars>>

\* The camera is opened under the limit of the specifications that run the
\* lock alongside.
PipelineOpen(opened) == PipelineOpenWith(max_consecutive_errors, opened)

\* The camera is opened under the limit __init__ sets.
SupervisedOpen(opened) == PipelineOpenWith(MAX_CONSECUTIVE_ERRORS, opened)

\* self.running turns False: recognition_loop finds it at the top of its
\* loop, releases the camera and returns; the `else` branch of
\* _recognition_loop_wrapper resets self._error_count and the wrapper's own
\* loop ends.
PipelineStop ==
    /\ callers["pipeline"].pc = "idle"
    /\ callers' = [callers EXCEPT !["pipeline"] =
                      [IdleCaller EXCEPT !.pc = "stopped"]]
    /\ error_count' = 0
    /\ exits' = Exited("clean")
    /\ UNCHANGED <<now, policyVars, policyHist, is_unlocking, relay, workers,
                   last_button_time, was_pressed, driveLog, cycle, relayCause,
                   lastUnlock>>
    /\ UNCHANGED <<consecutive_frame_errors, face_stable_count, last_face_pos,
                   frames>>
    /\ UNCHANGED <<storeVars, bleVars, receiverVars, clientVars, egressVars,
                   best_match, gpioVars>>

\* The failure counter stops growing one past max_frame_errors: the loop
\* only ever compares it with max_frame_errors.
FrameErrorCap == max_frame_errors + 1

\* recognition_loop with a failed reopen leaving the loop: the RuntimeError
\* reaches _recognition_loop_wrapper.
after_reopen_failed_leaves(caller, count, time) ==
    after_loop_error(MAX_CONSECUTIVE_ERRORS, count, time)

\* recognition_loop: RuntimeError("Failed to reopen camera") is raised inside
\* the try block of the iteration, whose `except Exception` handler logs it
\* and sleeps 0.5 s; the loop goes on.
after_reopen_failed(caller, count, time) ==
    [IdleCaller EXCEPT !.pc = "error_sleep", !.wake = time]

\* One iteration of recognition_loop in which read_frame fails: the failure
\* is counted and, at max_frame_errors in a row, the camera is released and
\* opened again.
LoopReadFailure(reopened) ==
    LET errors == Min(consecutive_frame_errors + 1, FrameErrorCap)
        reopen == errors >= max_frame_errors
    IN  /\ callers["pipeline"].pc = "idle"
        /\ ~reopen => reopened
        /\ consecutive_frame_errors' = IF reopen /\ reopened THEN 0 ELSE errors
        /\ callers' = [callers EXCEPT !["pipeline"] =
                          IF reopen /\ ~reopened
                          THEN after_reopen_failed(@, error_count + 1, now)
                          ELSE @]
        /\ error_count' = IF callers'["pipeline"].pc \in {"terminated", "backoff"}
                          THEN error_count + 1 ELSE error_count
        /\ exits' = IF callers'["pipeline"].pc \in {"terminated", "backoff"}
                    THEN Exited("error") ELSE exits
        /\ UNCHANGED <<now, policyVars, policyHist, is_unlocking, relay,
                       workers, last_button_time, was_pressed, driveLog, cycle,
                       relayCause, lastUnlock>>
        /\ UNCHANGED <<face_stable_count, last_face_pos, frames>>
        /\ UNCHANGED <<storeVars, bleVars, receiverVars, clientVars, egressVars,
                       best_match, gpioVars>>

\* recognition_loop: a step of the iteration before the decision raises
\* (the frame read, the detector, the embedder, the store); the handler of
\* the iteration logs it and sleeps 0.5 s.
PipelineIterationError ==
    /\ callers["pipeline"].pc = "idle"
    /\ callers' = [callers EXCEPT !["pipeline"] =
                      [IdleCaller EXCEPT !.pc = "error_sleep", !.wake = now]]
    /\ UNCHANGED <<now, policyVars, policyHist, is_unlocking, relay, workers,
                   last_button_time, was_pressed, driveLog, cycle, relayCause,
                   lastUnlock, error_count>>
    /\ UNCHANGED <<storeVars, bleVars, receiverVars, clientVars, egressVars,
                   best_match, loopVars, gpioVars>>

\* ------------------------------------------------------------ BLEProtocol

\* Access periods carried by the commands.
PeriodA == [start |-> StartTime - TickStep, end |-> LastTime + TickStep]
PeriodB == [start |-> StartTime + TickStep, end |-> StartTime + TickStep + 1]
NoPeriod == [start |-> 0, end |-> 0]

\* A row of table employees with the number of its rows in table embeddings.
NoRow == [present |-> FALSE, is_active |-> FALSE, period |-> NoPeriod,
          embeddings |-> 0]

NoSession == [active |-> FALSE, employee_id |-> None, period |-> NoPeriod,
              num_photos |-> 0, photos_received |-> 0, photos |-> <<>>]

\* A nonce "<timestamp>_<random>": present is false for a missing or empty
\* one, parses tells whether int(nonce.split('_')[0]) succeeds.
NoNonce == [present |-> FALSE, parses |-> FALSE, ts |-> 0, id |-> 0]
Nonce(ts, id) == [present |-> TRUE, parses |-> TRUE, ts |-> ts, id |-> id]
MalformedNonce == [present |-> TRUE, parses |-> FALSE, ts |-> 0, id |-> 1]

\* The bytes json.dumps(command_copy, sort_keys=True) yields: every field of
\* the command but hmac.
Serialize(cmd) ==
    <<cmd.command, cmd.employee_id, cmd.period, cmd.num_photos, cmd.nonce,
      cmd.data, cmd.is_last, cmd.sha256>>

\* hmac.new(key, message, sha256).hexdigest(): equal digests only for equal
\* key and message.
NoSignature == [present |-> FALSE, key |-> None, message |-> <<>>]
HMAC(key, message) == [present |-> TRUE, key |-> key, message |-> message]

\* hashlib.sha256(photo_data).hexdigest(): equal digests only for equal
\* data.
NoHash == [present |-> FALSE, of |-> <<>>]
SHA256(data) == [present |-> TRUE, of |-> data]

NoResponse == [type |-> "none", message |-> "none"]
Error(message) == [type |-> "ERROR", message |-> message]
Ok(message) == [type |-> "OK", message |-> message]

\* The protocol object's fields and the store as one record.
Ble ==
    [current_session |-> current_session, photo_buffer |-> photo_buffer,
     used_nonces |-> used_nonces, employees |-> employees,
     max_photo_size |-> max_photo_size]

\* abs(current_time - nonce_timestamp) > 300
NonceMaxAgeSec == 300


\* int(time.time()) when the clock reads `halves` half-seconds.
int_time(halves) == halves \div 2

\* verify_hmac with a window that is closed at 300 s.
verify_hmac_inclusive(B, cmd, t) ==
    IF ~hmac_enabled
    THEN [ok |-> TRUE, reason |-> "hmac_disabled", used_nonces |-> B.used_nonces]
    ELSE IF shared_secret = None
    THEN [ok |-> FALSE, reason |-> "no_secret", used_nonces |-> B.used_nonces]
    ELSE IF ~cmd.hmac.present \/ ~cmd.nonce.present
    THEN [ok |-> FALSE, reason |-> "missing", used_nonces |-> B.used_nonces]
    ELSE IF cmd.nonce \in B.used_nonces
    THEN [ok |-> FALSE, reason |-> "reuse", used_nonces |-> B.used_nonces]
    ELSE IF ~cmd.nonce.parses
    THEN [ok |-> FALSE, reason |-> "format", used_nonces |-> B.used_nonces]
    ELSE IF Abs(t - cmd.nonce.ts) >= NonceMaxAgeSec
    THEN [ok |-> FALSE, reason |-> "stale", used_nonces |-> B.used_nonces]
    ELSE IF cmd.hmac # HMAC(shared_secret, Serialize(cmd))
    THEN [ok |-> FALSE, reason |-> "mismatch", used_nonces |-> B.used_nonces]
    ELSE [ok |-> TRUE, reason |-> "verified",
          used_nonces |-> B.used_nonces \cup {cmd.nonce}]

\* check_admin_permission that lets every command through.
check_admin_permission_open == TRUE

\* check_admin_permission()
check_admin_permission == admin_mode_enabled

\* verify_hmac(command) at time t on protocol state B: the verdict and the
\* ledger with the nonce added (used_nonces before the size limit applies).
verify_hmac(B, cmd, t) ==
    IF ~hmac_enabled
    THEN [ok |-> TRUE, reason |-> "hmac_disabled", used_nonces |-> B.used_nonces]
    ELSE IF shared_secret = None
    THEN [ok |-> FALSE, reason |-> "no_secret", used_nonces |-> B.used_nonces]
    ELSE IF ~cmd.hmac.present \/ ~cmd.nonce.present
    THEN [ok |-> FALSE, reason |-> "missing", used_nonces |-> B.used_nonces]
    ELSE IF cmd.nonce \in B.used_nonces
    THEN [ok |-> FALSE, reason |-> "reuse", used_nonces |-> B.used_nonces]
    ELSE IF ~cmd.nonce.parses
    THEN [ok |-> FALSE, reason |-> "format", used_nonces |-> B.used_nonces]
    ELSE IF Abs(t - cmd.nonce.ts) > NonceMaxAgeSec
    THEN [ok |-> FALSE, reason |-> "stale", used_nonces |-> B.used_nonces]
    ELSE IF cmd.hmac # HMAC(shared_secret, Serialize(cmd))
    THEN [ok |-> FALSE, reason |-> "mismatch", used_nonces |-> B.used_nonces]
    ELSE [ok |-> TRUE, reason |-> "verified",
          used_nonces |-> B.used_nonces \cup {cmd.nonce}]

\* The ledgers `set(list(self.used_nonces)[-500:])` can leave once the ledger
\* S has outgrown its limit: the slice follows the set's iteration order,
\* which for strings changes with the process's hash seed, so any NonceKeep
\* of the elements may be the ones kept.
Evictions(S) ==
    IF Cardinality(S) > NonceLimit
    THEN { K \in SUBSET S : Cardinality(K) = NonceKeep }
    ELSE {S}

\* handle_begin_upsert(command)
handle_begin_upsert(B, cmd, t) ==
    LET v  == verify_hmac(B, cmd, t)
        B1 == [B EXCEPT !.used_nonces = v.used_nonces]
    IN  IF ~check_admin_permission
        THEN [response |-> Error("admin_disabled"), B |-> B]
        ELSE IF ~v.ok
        THEN [response |-> Error("hmac_failed"), B |-> B1]
        ELSE IF cmd.employee_id = None \/ cmd.period = NoPeriod
        THEN [response |-> Error("missing_parameters"), B |-> B1]
        ELSE IF cmd.num_photos < 1 \/ cmd.num_photos > 5
        THEN [response |-> Error("invalid_num_photos"), B |-> B1]
        ELSE [response |-> Ok("session_started"),
              B |-> [B1 EXCEPT
                       !.current_session =
                           [active |-> TRUE, employee_id |-> cmd.employee_id,
                            period |-> cmd.period,
                            num_photos |-> cmd.num_photos,
                            photos_received |-> 0, photos |-> <<>>],
                       !.photo_buffer = <<>>]]

\* The characters of a base64 text: 0 .. 63 stand for the alphabet's
\* characters by their value, Pad for '=', NonAlphabet for any other
\* character ('!').
Pad == 64
NonAlphabet == 65

\* base64.b64encode(bytes)
RECURSIVE b64encode(_)
b64encode(b) ==
    IF b = <<>> THEN <<>>
    ELSE IF Len(b) = 1
    THEN <<b[1] \div 4, (b[1] % 4) * 16, Pad, Pad>>
    ELSE IF Len(b) = 2
    THEN <<b[1] \div 4, (b[1] % 4) * 16 + b[2] \div 16, (b[2] % 16) * 4, Pad>>
    ELSE <<b[1] \div 4, (b[1] % 4) * 16 + b[2] \div 16,
           (b[2] % 16) * 4 + b[3] \div 64, b[3] % 64>>
         \o b64encode(SubSeq(b, 4, Len(b)))

\* binascii.a2b_base64 in its default, non-strict mode: characters outside
\* the alphabet are skipped, padding that completes a quad ends the input,
\* and an incomplete quad at the end raises binascii.Error.
RECURSIVE a2b_base64(_, _, _, _, _)
a2b_base64(s, quad_pos, leftchar, pads, out) ==
    IF s = <<>>
    THEN IF quad_pos # 0 THEN [raised |-> TRUE, bytes |-> <<>>]
         ELSE [raised |-> FALSE, bytes |-> out]
    ELSE LET c == Head(s)
             rest == Tail(s)
         IN  IF c = Pad
             THEN IF quad_pos >= 2 /\ quad_pos + pads + 1 >= 4
                  THEN [raised |-> FALSE, bytes |-> out]
                  ELSE a2b_base64(rest, quad_pos, leftchar,
                                  IF quad_pos >= 2 THEN pads + 1 ELSE pads,
                                  out)
             ELSE IF c > Pad
             THEN a2b_base64(rest, quad_pos, leftchar, pads, out)
             ELSE IF quad_pos = 0
             THEN a2b_base64(rest, 1, c, 0, out)
             ELSE IF quad_pos = 1
             THEN a2b_base64(rest, 2, c % 16, 0,
                             Append(out, leftchar * 4 + c \div 16))
             ELSE IF quad_pos = 2
             THEN a2b_base64(rest, 3, c % 4, 0,
                             Append(out, leftchar * 16 + c \div 4))
             ELSE a2b_base64(rest, 0, 0, 0, Append(out, leftchar * 64 + c))

\* base64.b64decode(data)
b64decode(data) == a2b_base64(data, 0, 0, 0, <<>>)

\* self.photo_buffer.write(chunk_bytes) that puts the chunk in front.
BytesIO_write_front(buffer, chunk_bytes) == chunk_bytes \o buffer

\* self.photo_buffer.write(chunk_bytes)
BytesIO_write(buffer, chunk_bytes) == buffer \o chunk_bytes

\* A size check that lets every chunk through.
exceeds_limit_never(B, chunk_bytes) == FALSE

\* self.photo_buffer.tell() + len(chunk_bytes) > self.max_photo_size
exceeds_limit(B, chunk_bytes) ==
    Len(B.photo_buffer) + Len(chunk_bytes) > B.max_photo_size

\* handle_photo_chunk(command)
handle_photo_chunk(B, cmd) ==
    IF ~B.current_session.active
    THEN [response |-> Error("no_session"), B |-> B]
    ELSE IF cmd.data = <<>>
    THEN [response |-> Error("missing_chunk_data"), B |-> B]
    ELSE LET chunk == b64decode(cmd.data)
         IN  IF chunk.raised
             THEN [response |-> Error("invalid_base64"), B |-> B]
             ELSE IF exceeds_limit(B, chunk.bytes)
             THEN [response |-> Error("size_exceeded"),
                   B |-> [B EXCEPT !.photo_buffer = <<>>]]
             ELSE LET photo_data == BytesIO_write(B.photo_buffer, chunk.bytes)
                  IN  IF ~cmd.is_last
                      THEN [response |-> NoResponse,
                            B |-> [B EXCEPT !.photo_buffer = photo_data]]
                      ELSE IF cmd.sha256.present
                              /\ SHA256(photo_data) # cmd.sha256
                      THEN [response |-> Error("hash_mismatch"),
                            B |-> [B EXCEPT !.photo_buffer = <<>>]]
                      ELSE [response |-> Ok("photo_received"),
                            B |-> [B EXCEPT
                                     !.current_session.photos =
                                         Append(@, photo_data),
                                     !.current_session.photos_received = @ + 1,
                                     !.photo_buffer = <<>>]]

\* process_registration_photos(session) when the face pipeline extracts
\* n_embeddings embeddings from the session's photos: upsert_employee,
\* delete_embeddings, add_embedding for each.
process_registration_photos(B, session, n_embeddings) ==
    IF n_embeddings = 0
    THEN [response |-> Error("no_valid_embeddings"), B |-> B]
    ELSE [response |-> Ok("registered"),
          B |-> [B EXCEPT !.employees[session.employee_id] =
                    [present |-> TRUE, is_active |-> TRUE,
                     period |-> session.period,
                     embeddings |-> n_embeddings]]]

\* What callback(self.current_session) does: it returns a response and
\* leaves the store as in r.B, or it raises with the store as in B.
CallbackReturns(r) == [raised |-> FALSE, response |-> r.response, B |-> r.B]
CallbackRaises(B) == [raised |-> TRUE, response |-> NoResponse, B |-> B]

\* handle_end_upsert(command, callback) when callback(self.current_session)
\* behaves as cb; the except branch clears the session only.
handle_end_upsert_callback(B, cmd, cb) ==
    IF ~B.current_session.active
    THEN [response |-> Error("no_session"), B |-> B]
    ELSE IF B.current_session.photos_received # B.current_session.num_photos
    THEN [response |-> Error("photos_missing"), B |-> B]
    ELSE IF cb.raised
    THEN [response |-> Error("exception"),
          B |-> [cb.B EXCEPT !.current_session = NoSession]]
    ELSE [response |-> cb.response,
          B |-> [cb.B EXCEPT !.current_session = NoSession,
                             !.photo_buffer = <<>>]]

\* handle_end_upsert that keeps the session when the processor answers ERROR.
handle_end_upsert_keeps_session(B, cmd, n_embeddings) ==
    LET r == handle_end_upsert_callback(
                 B, cmd,
                 CallbackReturns(process_registration_photos(
                                     B, B.current_session, n_embeddings)))
    IN  IF r.response = Error("no_valid_embeddings")
        THEN [r EXCEPT !.B = B]
        ELSE r

\* handle_end_upsert(command, callback) with process_registration_photos as
\* the callback, as set_callbacks wires it.
handle_end_upsert(B, cmd, n_embeddings) ==
    handle_end_upsert_callback(
        B, cmd,
        CallbackReturns(process_registration_photos(B, B.current_session,
                                                    n_embeddings)))

\* handle_update_period(command, callback) with update_period_callback.
handle_update_period(B, cmd, t) ==
    LET v  == verify_hmac(B, cmd, t)
        B1 == [B EXCEPT !.used_nonces = v.used_nonces]
    IN  IF ~check_admin_permission
        THEN [response |-> Error("admin_disabled"), B |-> B]
        ELSE IF ~v.ok
        THEN [response |-> Error("hmac_failed"), B |-> B1]
        ELSE IF cmd.employee_id = None \/ cmd.period = NoPeriod
        THEN [response |-> Error("missing_parameters"), B |-> B1]
        ELSE IF ~B.employees[cmd.employee_id].present
        THEN [response |-> Error("not_found"), B |-> B1]
        ELSE [response |-> Ok("period_updated"),
              B |-> [B1 EXCEPT !.employees[cmd.employee_id].period =
                                   cmd.period]]

\* handle_deactivate(command, callback) with deactivate_callback.
handle_deactivate(B, cmd, t) ==
    LET v  == verify_hmac(B, cmd, t)
        B1 == [B EXCEPT !.used_nonces = v.used_nonces]
    IN  IF ~check_admin_permission
        THEN [response |-> Error("admin_disabled"), B |-> B]
        ELSE IF ~v.ok
        THEN [response |-> Error("hmac_failed"), B |-> B1]
        ELSE IF cmd.employee_id = None
        THEN [response |-> Error("missing_employee_id"), B |-> B1]
        ELSE IF ~B.employees[cmd.employee_id].present
        THEN [response |-> Error("not_found"), B |-> B1]
        ELSE [response |-> Ok("deactivated"),
              B |-> [B1 EXCEPT !.employees[cmd.employee_id].is_active =
                                   FALSE]]

\* handle_delete(command, callback) with delete_callback: the employees row
\* goes; no PRAGMA foreign_keys is issued, so the embeddings rows stay.
handle_delete(B, cmd, t) ==
    LET v  == verify_hmac(B, cmd, t)
        B1 == [B EXCEPT !.used_nonces = v.used_nonces]
    IN  IF ~check_admin_permission
        THEN [response |-> Error("admin_disabled"), B |-> B]
        ELSE IF ~v.ok
        THEN [response |-> Error("hmac_failed"), B |-> B1]
        ELSE IF cmd.employee_id = None
        THEN [response |-> Error("missing_employee_id"), B |-> B1]
        ELSE IF ~B.employees[cmd.employee_id].present
        THEN [response |-> Error("not_found"), B |-> B1]
        ELSE [response |-> Ok("deleted"),
              B |-> [B1 EXCEPT !.employees[cmd.employee_id] =
                        [NoRow EXCEPT !.embeddings =
                            B.employees[cmd.employee_id].embeddings]]]

\* handle_get_status(callback)
handle_get_status(B) == [response |-> [type |-> "STATUS", message |-> "status"],
                         B |-> B]

\* CommandCharacteristic.process_command(command_type, command)
process_command(B, cmd, t, n_embeddings) ==
    IF cmd.command = "BEGIN_UPSERT" THEN handle_begin_upsert(B, cmd, t)
    ELSE IF cmd.command = "PHOTO_CHUNK" THEN handle_photo_chunk(B, cmd)
    ELSE IF cmd.command = "END_UPSERT"
         THEN handle_end_upsert(B, cmd, n_embeddings)
    ELSE IF cmd.command = "UPDATE_PERIOD" THEN handle_update_period(B, cmd, t)
    ELSE IF cmd.command = "DEACTIVATE" THEN handle_deactivate(B, cmd, t)
    ELSE IF cmd.command = "GET_STATUS" THEN handle_get_status(B)
    ELSE [response |-> Error("unknown_command"), B |-> B]

\* --------------------------------------------------- inputs of the protocol

\* A command dictionary; fields a command does not carry hold their empty
\* value.
Command(command, employee_id, period, num_photos) ==
    [command |-> command, employee_id |-> employee_id, period |-> period,
     num_photos |-> num_photos, data |-> <<>>, is_last |-> FALSE,
     sha256 |-> NoHash, nonce |-> NoNonce, hmac |-> NoSignature]

\* BLERegistrationClient.generate_hmac: the nonce is added, then the command
\* is signed with key.
Signed(cmd, key, nonce) ==
    LET c == [cmd EXCEPT !.nonce = nonce]
    IN  [c EXCEPT !.hmac = HMAC(key, Serialize(c))]

SecretKey == "secret"

\* The commands that carry credentials, one of each type.
AdminCommands ==
    { Command("BEGIN_UPSERT", "e1", PeriodA, 1),
      Command("UPDATE_PERIOD", "e1", PeriodB, 0),
      Command("DEACTIVATE", "e1", NoPeriod, 0),
      Command("DELETE", "e1", NoPeriod, 0) }

\* The ways a client at time t fills in the credentials of cmd: signed with
\* a fresh nonce, with a nonce older than the window, with a nonce that does
\* not parse, with another key, altered after signing, without signature,
\* without nonce and signature.
Credentials(cmd, t) ==
    { Signed(cmd, SecretKey, Nonce(t, i)) : i \in 1 .. MaxNonces }
    \cup { Signed(cmd, SecretKey, Nonce(t - NonceMaxAgeSec - 1, 1)),
           Signed(cmd, SecretKey, MalformedNonce),
           Signed(cmd, "other", Nonce(t, 1)),
           [Signed(cmd, SecretKey, Nonce(t, 1)) EXCEPT !.employee_id = "e2"],
           [Signed(cmd, SecretKey, Nonce(t, 1)) EXCEPT !.hmac = NoSignature],
           cmd }

PhotoChunk(data, is_last, sha256) ==
    [Command("PHOTO_CHUNK", None, NoPeriod, 0) EXCEPT
        !.data = data, !.is_last = is_last, !.sha256 = sha256]

\* A photo of n bytes 'A'.
PlainPhoto(n) == [i \in 1 .. n |-> 65]

PlainCommands ==
    { PhotoChunk(b64encode(PlainPhoto(1)), FALSE, NoHash),
      PhotoChunk(<<>>, TRUE, NoHash),
      PhotoChunk(b64encode(PlainPhoto(1)), TRUE, NoHash) }
    \cup { PhotoChunk(b64encode(PlainPhoto(1)), TRUE, SHA256(PlainPhoto(n))) :
              n \in 1 .. PhotoSize }
    \cup { Command("END_UPSERT", None, NoPeriod, 0),
           Command("GET_STATUS", None, NoPeriod, 0) }

\* The commands a client can send at time t.
BleCommands(t) ==
    UNION { Credentials(cmd, t) : cmd \in AdminCommands }
    \cup PlainCommands

\* The numbers of embeddings the face pipeline may extract from the photos
\* of the session cmd completes.
EmbeddingCounts(cmd) ==
    IF cmd.command = "END_UPSERT" THEN 0 .. Len(current_session.photos)
    ELSE {0}

\* (admin_mode_enabled, hmac_enabled, shared_secret, max_photo_size) of the
\* configuration.
DefaultConfig == <<TRUE, TRUE, SecretKey, PhotoSize>>
BleConfigs ==
    { DefaultConfig, <<FALSE, TRUE, SecretKey, PhotoSize>>,
      <<TRUE, TRUE, None, PhotoSize>>, <<TRUE, FALSE, None, PhotoSize>> }

\* ------------------------------------------- protocol and connection events

InitBLE(cfg) ==
    /\ admin_mode_enabled = cfg[1]
    /\ hmac_enabled = cfg[2]
    /\ shared_secret = cfg[3]
    /\ max_photo_size = cfg[4]
    /\ current_session = NoSession
    /\ photo_buffer = <<>>
    /\ used_nonces = {}
    /\ employees = [i \in Ids |-> NoRow]
    /\ response = NoResponse
    /\ acceptedNonces = {}
    /\ begunOnConn = FALSE

\* The receiver and the client when the client's next frame carries seq0:
\* 0 before the first connection, otherwise in the middle of a connection on
\* which the frames up to seq0 - 1 were written and processed.
InitReceiver(seq0) ==
    /\ rx_buffer = <<>>
    /\ rx_state = "WAIT_HEADER"
    /\ expected_len = 0
    /\ last_seq = seq0 - 1
    /\ timeout_handle = FALSE
    /\ notifying = (seq0 # 0)
    /\ last_message = <<>>
    /\ chrc_value = <<>>
    /\ signals = <<>>
    /\ wire = <<>>
    /\ client_seq = seq0 % 256
    /\ mustReconnect = FALSE
    /\ framesSent = 0
    /\ onlyDuplicates = TRUE
    /\ rolledOver = (last_seq = 255)
    /\ delivered = <<>>
    /\ expected = <<>>
    /\ wellFormed = TRUE

\* CommandCharacteristic.reset_state()
\* A reset that forgets everything but the sequence number.
reset_state_keeps_seq ==
    /\ rx_buffer' = <<>>
    /\ rx_state' = "WAIT_HEADER"
    /\ expected_len' = 0
    /\ last_seq' = last_seq
    /\ timeout_handle' = FALSE

\* CommandCharacteristic.reset_state()
reset_state ==
    /\ rx_buffer' = <<>>
    /\ rx_state' = "WAIT_HEADER"
    /\ expected_len' = 0
    /\ last_seq' = -1
    /\ timeout_handle' = FALSE

\* ResponseCharacteristic.StartNotify(): a client has connected and
\* subscribes; BLERegistrationClient.connect starts its counter at 0.
StartNotify ==
    /\ ~notifying
    /\ notifying' = TRUE
    /\ reset_state
    /\ begunOnConn' = FALSE
    /\ wire' = <<>>
    /\ client_seq' = 0
    /\ mustReconnect' = FALSE
    /\ UNCHANGED <<now, policyVars, policyHist, lockVars, storeVars, egressVars, error_count, best_match, loopVars,
                   admin_mode_enabled, hmac_enabled, shared_secret,
                   max_photo_size,
                   current_session, photo_buffer, used_nonces, employees,
                   response, acceptedNonces, framesSent, onlyDuplicates,
                   rolledOver, delivered, expected, wellFormed, gpioVars>>

\* ResponseCharacteristic.StopNotify(): the client unsubscribes or its
\* connection ends, once the bytes it had queued are written.
StopNotify ==
    /\ notifying
    /\ wire = <<>>
    /\ notifying' = FALSE
    /\ reset_state
    /\ begunOnConn' = FALSE
    /\ UNCHANGED <<now, policyVars, policyHist, lockVars, storeVars,
                   admin_mode_enabled, hmac_enabled, shared_secret,
                   max_photo_size,
                   current_session, photo_buffer, used_nonces, employees,
                   response, acceptedNonces, clientVars, egressVars, error_count, best_match, loopVars,
                   gpioVars>>

\* _process_message(payload) for a payload that decodes to the dictionary
\* cmd: process_command, then the response is notified.  n_embeddings is the
\* number of embeddings the face pipeline extracts if the command completes
\* a registration.
ProcessMessageBounded(cmd, n_embeddings, max_photos) ==
    LET r == process_command(Ble, cmd, now, n_embeddings)
    IN  /\ notifying
        /\ Len(r.B.current_session.photos) <= max_photos
        /\ current_session' = r.B.current_session
        /\ photo_buffer' = r.B.photo_buffer
        /\ employees' = r.B.employees
        /\ used_nonces' \in Evictions(r.B.used_nonces)
        /\ response' = r.response
        /\ acceptedNonces' =
               acceptedNonces \cup (r.B.used_nonces \ used_nonces)
        /\ begunOnConn' =
               (begunOnConn \/ (cmd.command = "BEGIN_UPSERT"
                                /\ r.response.type = "OK"))
        /\ UNCHANGED <<now, policyVars, policyHist, lockVars, storeVars,
                       admin_mode_enabled, hmac_enabled, shared_secret,
                   max_photo_size,
                       notifying, receiverVars, clientVars, egressVars, error_count, best_match, loopVars,
                       gpioVars>>

ProcessMessage(cmd, n_embeddings) ==
    ProcessMessageBounded(cmd, n_embeddings, MaxPhotos)

\* A client writes a complete command.
ClientCommand ==
    \E cmd \in BleCommands(now) :
       \E n_embeddings \in EmbeddingCounts(cmd) :
          ProcessMessage(cmd, n_embeddings)

\* The distances, in seconds, between the clock and the timestamp a client
\* puts in its nonce: none, the edge of the window on either side, and one
\* second beyond it.
NonceOffsets ==
    {0, NonceMaxAgeSec, -NonceMaxAgeSec, NonceMaxAgeSec + 1,
     -(NonceMaxAgeSec + 1)}

\* Signed commands a client whose clock is off sends at time t, and one with
\* a nonce that has no integer prefix.
FreshnessCommands(t) ==
    LET cmds == { Command("BEGIN_UPSERT", "e1", PeriodA, 1),
                  Command("DEACTIVATE", "e1", NoPeriod, 0) }
    IN  { Signed(cmd, SecretKey, Nonce(t + d, 1)) :
             cmd \in cmds, d \in NonceOffsets }
        \cup { Signed(cmd, SecretKey, MalformedNonce) : cmd \in cmds }

\* A client whose clock is off writes a complete signed command.
FreshnessCommand ==
    \E cmd \in FreshnessCommands(now) : ProcessMessage(cmd, 0)

\* ------------------------------------------------- the chunked photo upload

\* Administration open, no signatures, photos of up to ChunkPhotoSize bytes.
ChunkConfig == <<TRUE, FALSE, None, ChunkPhotoSize>>

\* The photos the client uploads: one of ChunkPhotoSize bytes 'A', 'B',
\* 'C', ..., and one a byte shorter of bytes 0xFF, 0xFE, ...
ClientPhoto == [i \in 1 .. ChunkPhotoSize |-> 64 + i]
ShortPhoto == [i \in 1 .. ChunkPhotoSize - 1 |-> 256 - i]
ClientPhotos == {ClientPhoto, ShortPhoto}

\* BLERegistrationClient.send_photo cuts the photo into chunks of at most
\* ChunkSize bytes: the pieces that continue after the k bytes sent so far.
Pieces(photo, k) ==
    { SubSeq(photo, k + 1, k + j) : j \in 1 .. Min(ChunkSize, Len(photo) - k) }

\* The payloads a client may put into its next chunk when the accumulator
\* is as in B: the next piece of the photo, or the first piece again when
\* it starts the photo over.
ChunkPayloads(B) ==
    UNION { Pieces(photo, Len(B.photo_buffer)) \cup Pieces(photo, 0) :
               photo \in ClientPhotos }

\* The data fields of the chunks: the payloads encoded, no data, an encoding
\* cut off after three characters, and an encoding with a character outside
\* the alphabet in front.
ChunkData(B) ==
    { b64encode(p) : p \in ChunkPayloads(B) }
    \cup { <<>>,
           SubSeq(b64encode(SubSeq(ClientPhoto, 1, 1)), 1, 3),
           <<NonAlphabet>> \o b64encode(SubSeq(ClientPhoto, 1, 1)) }

\* The commands of the uploading client: it opens a session for ChunkPhotos
\* photos and sends chunks, the last chunk of a photo with the photo's hash
\* (BLERegistrationClient.send_photo).
ChunkCommands(B) ==
    { Command("BEGIN_UPSERT", "e1", PeriodA, ChunkPhotos) }
    \cup { PhotoChunk(d, FALSE, NoHash) : d \in ChunkData(B) }
    \cup { PhotoChunk(d, TRUE, SHA256(photo)) :
              d \in ChunkData(B), photo \in ClientPhotos }

\* The uploading client writes a complete command.
ChunkCommand ==
    \E cmd \in ChunkCommands(Ble) : ProcessMessageBounded(cmd, 0, ChunkPhotos)

\* --------------------------------------------------- CommandCharacteristic

\* HEADER_SIZE = 3
HEADER_SIZE == 3
\* self._max_command_size = 64 * 1024
max_command_size == 65536

\* s[:n] and s[n:] of Python
Take(s, n) == SubSeq(s, 1, Min(n, Len(s)))
Drop(s, n) == SubSeq(s, n + 1, Len(s))

\* struct.unpack('>HB', header): big-endian 16-bit length, 8-bit sequence.
HeaderLen(buf) == buf[1] * 256 + buf[2]
HeaderSeq(buf) == buf[3]

\* JSON whitespace: space, tab, line feed, carriage return.
IsSpace(b) == b \in {32, 9, 10, 13}

RECURSIVE LStrip(_)
LStrip(p) == IF p # <<>> /\ IsSpace(Head(p)) THEN LStrip(Tail(p)) ELSE p
RECURSIVE RStrip(_)
RStrip(p) ==
    IF p # <<>> /\ IsSpace(p[Len(p)]) THEN RStrip(Take(p, Len(p) - 1)) ELSE p

\* What payload.decode('utf-8') and json.loads make of the payload p:
\*   "badutf8" UnicodeDecodeError (the bytes above 127 of a run are 0xFE and
\*             0xFF, which occur in no UTF-8 sequence),
\*   "object"  a dictionary: "{" whitespace "}",
\*   "scalar"  a JSON number, on which command.get raises AttributeError,
\*   "badjson" JSONDecodeError for every other text over the bytes of a run.
Decode(p) ==
    LET q == RStrip(LStrip(p))
    IN  IF \E i \in 1 .. Len(p) : p[i] > 127 THEN "badutf8"
        ELSE IF /\ Len(q) >= 2 /\ q[1] = 123 /\ q[Len(q)] = 125
                /\ \A i \in 2 .. Len(q) - 1 : IsSpace(q[i])
             THEN "object"
        ELSE IF /\ Len(q) >= 1
                /\ \A i \in 1 .. Len(q) : q[i] \in 48 .. 57
                /\ Len(q) > 1 => q[1] # 48
             THEN "scalar"
        ELSE "badjson"

\* The receiver's fields as one record, with the payloads handed to
\* process_command (out), the last response notified (resp) and the
\* responses notified during one WriteValue (sent).
Receiver ==
    [buf |-> rx_buffer, state |-> rx_state, expected_len |-> expected_len,
     last_seq |-> last_seq, timer |-> timeout_handle, out |-> <<>>,
     resp |-> response, sent |-> <<>>]

\* self.response_chrc.send_notification(...) during a WriteValue.
Notified(R, message) ==
    [R EXCEPT !.resp = message, !.sent = Append(@, message)]

\* seq == self._last_seq and self._last_seq >= 0
IsDuplicate(seq, last) == seq = last /\ last >= 0

RECURSIVE Drain(_)
\* The `while True` loop of WriteValue on receiver R, including
\* _process_message for each complete payload, up to the return.
Drain(R) ==
    IF R.state = "WAIT_HEADER" /\ Len(R.buf) < HEADER_SIZE THEN R
    ELSE IF R.state = "WAIT_HEADER"
    THEN LET len == HeaderLen(R.buf)
             seq == HeaderSeq(R.buf)
             kept == IF seq = 0 /\ R.last_seq > 0
                     THEN Take(R.buf, HEADER_SIZE + len) ELSE R.buf
         IN  IF len = 0 \/ len > max_command_size
             THEN LET R0 == [R EXCEPT !.expected_len = len, !.buf = <<>>]
                  IN  IF len > 0 THEN Notified(R0, Error("command_too_large"))
                      ELSE R0
             ELSE IF IsDuplicate(seq, R.last_seq)
             THEN Drain([R EXCEPT !.expected_len = len,
                                  !.buf = IF Len(kept) >= HEADER_SIZE + len
                                          THEN Drop(kept, HEADER_SIZE + len)
                                          ELSE <<>>])
             ELSE Drain([R EXCEPT !.expected_len = len, !.last_seq = seq,
                                  !.buf = Drop(kept, HEADER_SIZE),
                                  !.state = "WAIT_PAYLOAD"])
    ELSE IF Len(R.buf) < R.expected_len THEN R
    ELSE LET payload == Take(R.buf, R.expected_len)
             kind == Decode(payload)
             R1 == [R EXCEPT !.buf = Drop(R.buf, R.expected_len),
                             !.state = "WAIT_HEADER"]
         IN  IF kind = "object"
             THEN Drain(Notified([R1 EXCEPT !.out = Append(@, payload)],
                                 Error("unknown_command")))
             ELSE IF kind = "scalar"
             THEN Notified([R1 EXCEPT !.buf = <<>>], Error("exception"))
             ELSE Drain(Notified([R1 EXCEPT !.buf = <<>>, !.expected_len = 0,
                                            !.last_seq = -1, !.timer = FALSE],
                                 IF kind = "badjson"
                                 THEN Error("invalid_json")
                                 ELSE Error("invalid_encoding")))

\* WriteValue(value, options): the timer is re-armed, the bytes are appended
\* and the loop runs.
WriteValue(value) ==
    LET R == Drain([Receiver EXCEPT !.timer = TRUE, !.buf = @ \o value])
    IN  /\ rx_buffer' = R.buf
        /\ rx_state' = R.state
        /\ expected_len' = R.expected_len
        /\ last_seq' = R.last_seq
        /\ timeout_handle' = R.timer
        /\ response' = R.resp
        /\ delivered' = delivered \o R.out

\* _on_timeout(): RX_TIMEOUT_MS without a write.  It fires when the client
\* has nothing queued; a client that stalls in the middle of a frame is not
\* part of a run.
OnTimeout ==
    /\ timeout_handle
    /\ wire = <<>>
    /\ rx_buffer' = <<>>
    /\ rx_state' = "WAIT_HEADER"
    /\ expected_len' = 0
    /\ timeout_handle' = FALSE
    /\ UNCHANGED <<now, policyVars, policyHist, lockVars, storeVars, bleVars, last_seq,
                   clientVars, egressVars, error_count, best_match, loopVars,
                   gpioVars>>

\* ------------------------------------------------- ResponseCharacteristic

\* message.encode('utf-8'): one byte for a character below U+0080, two for
\* a character below U+0800.
RECURSIVE encode_utf8(_)
encode_utf8(text) ==
    IF text = <<>> THEN <<>>
    ELSE LET c == Head(text)
         IN  (IF c < 128 THEN <<c>>
              ELSE <<192 + (c \div 64), 128 + (c % 64)>>)
             \o encode_utf8(Tail(text))

\* data[i:j]
Slice(data, i, j) == SubSeq(data, i + 1, Min(j, Len(data)))

\* The loop `for i in range(0, len(data), chunk_size)` from index i on:
\* the flag byte, then the chunk.
RECURSIVE fragment_loop(_, _, _, _)
fragment_loop(data, chunk_size, i, chunks) ==
    IF i >= Len(data) THEN chunks
    ELSE LET chunk == Slice(data, i, i + chunk_size)
             is_last == (i + chunk_size >= Len(data))
             flag == IF is_last THEN 0 ELSE 1
         IN  fragment_loop(data, chunk_size, i + chunk_size,
                           Append(chunks, <<flag>> \o chunk))

\* The loop with no byte reserved for the flag.
send_fragmented_notification_full(data) ==
    fragment_loop(data, MAX_NOTIFICATION_SIZE, 0, <<>>)

\* _send_fragmented_notification(data): the values notified, in order.
send_fragmented_notification(data) ==
    fragment_loop(data, MAX_NOTIFICATION_SIZE - 1, 0, <<>>)

\* send_notification(message): the values the PropertiesChanged signals
\* carry, none when no client is subscribed.
send_notification(subscribed, text) ==
    LET message_bytes == encode_utf8(text)
    IN  IF ~subscribed THEN <<>>
        ELSE IF Len(message_bytes) <= MAX_NOTIFICATION_SIZE
             THEN <<message_bytes>>
             ELSE send_fragmented_notification(message_bytes)

\* The characters of the responses: '{', which every JSON response starts
\* with, and a character outside ASCII.
MessageChars == {123, 233}

RECURSIVE TextsUpTo(_)
TextsUpTo(n) ==
    IF n = 0 THEN {<<>>}
    ELSE LET shorter == TextsUpTo(n - 1)
         IN  shorter \cup {Append(t, c) : t \in shorter, c \in MessageChars}

\* The server notifies a response.
SendNotification ==
    /\ \E text \in TextsUpTo(MaxMessage) :
          LET out == send_notification(notifying, text)
          IN  /\ last_message' = text
              /\ signals' = out
              /\ chrc_value' = IF out = <<>> THEN chrc_value ELSE out[Len(out)]
    /\ UNCHANGED <<now, policyVars, policyHist, lockVars, storeVars, bleVars,
                   receiverVars, clientVars, error_count, best_match,
                   loopVars, gpioVars>>

\* ------------------------------------------------------- BLE client and link

\* header + payload of send_command: struct.pack('>HB', len(payload), seq).
Frame(len, seq, payload) == <<len \div 256, len % 256, seq>> \o payload

\* Payloads that are JSON objects: "{}" and "{ }".
ValidPayloads == {<<123, 125>>, <<123, 32, 125>>}
\* Payloads that are no command: "{" (no JSON), "0" (JSON, no object) and a
\* byte that is no UTF-8.
CorruptPayloads == {<<123>>, <<48>>, <<255>>}

FrameKinds == {"valid", "duplicate", "zero_length", "oversized", "non_json",
               "cut_off"}

\* The bytes a client queues for a frame of the given kind, with payload p.
FrameBytes(kind, p) ==
    CASE kind = "valid"       -> Frame(Len(p), client_seq, p)
      [] kind = "duplicate"   -> Frame(Len(p), (client_seq + 255) % 256, p)
      [] kind = "zero_length" -> Frame(0, client_seq, <<>>)
      [] kind = "oversized"   -> Frame(65535, client_seq, <<>>)
      [] kind = "non_json"    -> Frame(Len(p), client_seq, p)
      [] kind = "cut_off"     -> Frame(Len(p), client_seq, Take(p, 1))

\* A client queues one frame.  A valid frame carries the rolling counter
\* (self._seq & 0xFF, then self._seq += 1); a duplicate repeats the sequence
\* number of the frame before it; a cut-off frame is followed by nothing but
\* the disconnect.
SendFrame(kind, p) ==
    /\ notifying
    /\ ~mustReconnect
    /\ framesSent < MaxFrames
    /\ kind = "duplicate" => client_seq # 0
    /\ wire' = wire \o FrameBytes(kind, p)
    /\ client_seq' = IF kind = "duplicate" THEN client_seq
                     ELSE (client_seq + 1) % 256
    /\ mustReconnect' = (kind = "cut_off")
    /\ framesSent' = framesSent + 1
    /\ onlyDuplicates' = (onlyDuplicates /\ kind \in {"valid", "duplicate"})
    /\ rolledOver' = (rolledOver \/ HeaderSeq(FrameBytes(kind, p)) = 255)
    /\ expected' = IF kind = "valid" THEN Append(expected, p) ELSE expected
    /\ wellFormed' = (wellFormed /\ kind = "valid")
    /\ UNCHANGED <<now, policyVars, policyHist, lockVars, storeVars, egressVars, error_count, best_match, loopVars, bleVars,
                   receiverVars, delivered, gpioVars>>

ClientSend ==
    \E kind \in FrameKinds :
       \E p \in IF kind = "non_json" THEN CorruptPayloads
                ELSE IF kind \in {"zero_length", "oversized"} THEN {<<>>}
                ELSE ValidPayloads :
          SendFrame(kind, p)

\* One GATT write carries the next k queued bytes to WriteValue.
Write(k) ==
    /\ notifying
    /\ k \in 1 .. Len(wire)
    /\ WriteValue(Take(wire, k))
    /\ wire' = Drop(wire, k)
    /\ UNCHANGED <<now, policyVars, policyHist, lockVars, storeVars, egressVars, error_count, best_match, loopVars,
                   admin_mode_enabled, hmac_enabled, shared_secret,
                   max_photo_size,
                   current_session, photo_buffer, used_nonces, employees,
                   notifying, acceptedNonces, begunOnConn, client_seq,
                   mustReconnect, framesSent, onlyDuplicates, rolledOver,
                   expected, wellFormed, gpioVars>>

LinkWrite == \E k \in 1 .. Len(wire) : Write(k)

\* ------------------------------------------------------------ Database

NoDbRow ==
    [present |-> FALSE, display_name |-> None, access_start |-> BadIso,
     access_end |-> BadIso, is_active |-> FALSE]

\* The two tables as one value.
Store == [employees |-> db_employees, embeddings |-> db_embeddings]

\* A face embedding: the vector the embedder computed for photo i of
\* enrollment k, as a numpy array of the given dtype.
Vector(k, i) == [dtype |-> "float32", v |-> <<k, i>>]

\* embedding.tobytes(): the raw items, itemsize bytes each.
tobytes(vec) ==
    [itemsize |-> IF vec.dtype = "float32" THEN 4 ELSE 8, v |-> vec.v]

\* np.frombuffer(embedding_bytes, dtype=np.float32): the same vector when the
\* items were written 4 bytes wide, another one otherwise.
frombuffer(b) ==
    IF b.itemsize = 4 THEN [dtype |-> "float32", v |-> b.v]
    ELSE [dtype |-> "float32", v |-> <<"reinterpreted", b.v>>]

\* What a call of the store yields: the tables after it, the value returned
\* and whether it raised instead.
Returns(D, value) == [D |-> D, value |-> value, raised |-> FALSE]
Raises(D) == [D |-> D, value |-> None, raised |-> TRUE]

\* upsert_employee(employee_id, access_start, access_end, display_name,
\* is_active): INSERT ... ON CONFLICT(employee_id) DO UPDATE, commit.  The
\* datetimes are stored as access_start.isoformat().
upsert_employee(D, employee_id, access_start, access_end, display_name, is_active) ==
    Returns([D EXCEPT !.employees[employee_id] =
                [present |-> TRUE, display_name |-> display_name,
                 access_start |-> Iso(access_start),
                 access_end |-> Iso(access_end),
                 is_active |-> is_active]],
            None)

\* add_embedding(employee_id, embedding): INSERT INTO embeddings, commit.
\* The FOREIGN KEY clause is enforced only with PRAGMA foreign_keys on.
add_embedding(D, fk, employee_id, embedding) ==
    IF fk /\ ~D.employees[employee_id].present
    THEN Raises(D)
    ELSE Returns([D EXCEPT !.embeddings =
                     @ \cup {[employee_id |-> employee_id,
                              embedding |-> tobytes(embedding)]}],
                 "rowid")

\* delete_embeddings that deletes nothing.
delete_embeddings_nothing(D, employee_id) == Returns(D, None)

\* delete_embeddings(employee_id)
delete_embeddings(D, employee_id) ==
    Returns([D EXCEPT !.embeddings =
                {e \in @ : e.employee_id # employee_id}],
            None)

\* get_employee that answers with the row as it was when the candidates
\* were listed: active, with the stored period.
get_employee_listed(D, employee_id) ==
    IF D.employees[employee_id].present
    THEN [D.employees[employee_id] EXCEPT !.is_active = TRUE]
    ELSE [NoDbRow EXCEPT !.present = TRUE, !.is_active = TRUE,
                         !.access_start = Iso(PeriodA.start),
                         !.access_end = Iso(PeriodA.end)]

\* get_employee(employee_id): the row as a dict, or None.
get_employee(D, employee_id) ==
    IF D.employees[employee_id].present
    THEN D.employees[employee_id] ELSE NoDbRow

\* get_active_employees_with_embeddings without WHERE is_active = 1.
get_active_employees_with_embeddings_all(D) ==
    [id \in Ids |->
        IF D.employees[id].present
        THEN {frombuffer(e.embedding) :
                 e \in {x \in D.embeddings : x.employee_id = id}}
        ELSE {}]

\* get_active_employees_with_embeddings(): for each active employee with at
\* least one embedding its vectors; here as id -> set of vectors, the empty
\* set for an employee that is not part of the result.
get_active_employees_with_embeddings(D) ==
    [id \in Ids |->
        IF D.employees[id].present /\ D.employees[id].is_active
        THEN {frombuffer(e.embedding) :
                 e \in {x \in D.embeddings : x.employee_id = id}}
        ELSE {}]

\* update_employee_period(employee_id, access_start, access_end): UPDATE,
\* commit, rowcount > 0.
update_employee_period(D, employee_id, access_start, access_end) ==
    IF D.employees[employee_id].present
    THEN Returns([D EXCEPT !.employees[employee_id].access_start =
                               Iso(access_start),
                           !.employees[employee_id].access_end =
                               Iso(access_end)],
                 TRUE)
    ELSE Returns(D, FALSE)

\* deactivate_employee(employee_id)
deactivate_employee(D, employee_id) ==
    IF D.employees[employee_id].present
    THEN Returns([D EXCEPT !.employees[employee_id].is_active = FALSE], TRUE)
    ELSE Returns(D, FALSE)

\* delete_employee(employee_id): DELETE FROM employees, commit, rowcount > 0.
\* ON DELETE CASCADE removes the embeddings only with PRAGMA foreign_keys on.
delete_employee(D, fk, employee_id) ==
    IF D.employees[employee_id].present
    THEN Returns([D EXCEPT !.employees[employee_id] = NoDbRow,
                           !.embeddings =
                               IF fk
                               THEN {e \in @ : e.employee_id # employee_id}
                               ELSE @],
                 TRUE)
    ELSE Returns(D, FALSE)

\* ------------------------------------------- the enrollment processor

IdleEnroll ==
    [pc |-> "idle",
     session |-> [employee_id |-> None, display_name |-> None,
                  access_start |-> BadIso, access_end |-> BadIso],
     embeddings |-> <<>>, i |-> 0,
     old |-> [row |-> NoDbRow, embeddings |-> {}]]

NoReturn == [op |-> "none", employee_id |-> None, value |-> None]

NoSnapshot == [employees |-> [id \in Ids |-> {}], during |-> IdleEnroll]

\* The rows of table embeddings owned by employee_id.
EmbeddingsOf(D, employee_id) ==
    {e \in D.embeddings : e.employee_id = employee_id}

StoreBecomes(D) ==
    /\ db_employees' = D.employees
    /\ db_embeddings' = D.embeddings

\* process_registration_photos returns value.
EnrollReturns(value) ==
    /\ enroll' = [enroll EXCEPT !.pc = "idle"]
    /\ db_return' = [op |-> "process_registration_photos",
                     employee_id |-> enroll.session.employee_id,
                     value |-> value]

Names == {"Ann", "Bob"}

\* (access_start, access_end) strings of a session as BEGIN_UPSERT stored
\* them: a window, a window that ends before it starts, and a start that is
\* no ISO-8601 date.
SessionPeriods ==
    { <<Iso(PeriodB.start), Iso(PeriodB.end)>>,
      <<Iso(PeriodB.end), Iso(PeriodB.start)>>,
      <<BadIso, Iso(PeriodB.end)>> }

EnrollSessions ==
    { [employee_id |-> "e1", display_name |-> n, access_start |-> w[1],
       access_end |-> w[2]] : n \in Names, w \in SessionPeriods }

\* process_registration_photos(session) up to its first call of the store:
\* the dates are parsed, every photo is decoded, checked, aligned and
\* embedded; n_valid photos yield an embedding.
EnrollBegin(session, n_valid) ==
    /\ enroll.pc = "idle"
    /\ enrollments < MaxEnrollments
    /\ enrollments' = enrollments + 1
    /\ LET id == session.employee_id
           begun == [pc |-> "upsert", session |-> session,
                     embeddings |->
                        [j \in 1 .. n_valid |-> Vector(enrollments + 1, j)],
                     i |-> 1,
                     old |-> [row |-> db_employees[id],
                              embeddings |-> EmbeddingsOf(Store, id)]]
           return(value) ==
              /\ enroll' = [begun EXCEPT !.pc = "idle"]
              /\ db_return' = [op |-> "process_registration_photos",
                               employee_id |-> id, value |-> value]
       IN  IF ~session.access_start.ok \/ ~session.access_end.ok
           THEN return(Error("exception"))
           ELSE IF n_valid = 0
           THEN return(Error("no_valid_embeddings"))
           ELSE /\ enroll' = begun
                /\ db_return' = [op |-> "process_registration_photos",
                                 employee_id |-> id, value |-> "running"]
    /\ UNCHANGED <<now, policyVars, policyHist, lockVars, bleVars,
                   receiverVars, clientVars, egressVars, error_count, best_match, loopVars, foreign_keys, db_employees,
                   db_embeddings, snapshot, gpioVars>>

\* self.db.upsert_employee(...): it commits, or raises sqlite3.Error and
\* the processor returns ERROR.
EnrollUpsert(fails) ==
    /\ enroll.pc = "upsert"
    /\ IF fails
       THEN /\ EnrollReturns(Error("exception"))
            /\ UNCHANGED <<db_employees, db_embeddings>>
       ELSE /\ StoreBecomes(upsert_employee(Store,
                               enroll.session.employee_id,
                               enroll.session.access_start.t,
                               enroll.session.access_end.t,
                               enroll.session.display_name, TRUE).D)
            /\ enroll' = [enroll EXCEPT !.pc = "delete"]
            /\ UNCHANGED db_return
    /\ UNCHANGED <<now, policyVars, policyHist, lockVars, bleVars,
                   receiverVars, clientVars, egressVars, error_count, best_match, loopVars, foreign_keys, snapshot,
                   enrollments, gpioVars>>

\* self.db.delete_embeddings(employee_id)
EnrollDelete(fails) ==
    /\ enroll.pc = "delete"
    /\ IF fails
       THEN /\ EnrollReturns(Error("exception"))
            /\ UNCHANGED <<db_employees, db_embeddings>>
       ELSE /\ StoreBecomes(delete_embeddings(Store,
                               enroll.session.employee_id).D)
            /\ enroll' = [enroll EXCEPT !.pc = "add"]
            /\ UNCHANGED db_return
    /\ UNCHANGED <<now, policyVars, policyHist, lockVars, bleVars,
                   receiverVars, clientVars, egressVars, error_count, best_match, loopVars, foreign_keys, snapshot,
                   enrollments, gpioVars>>

\* self.db.add_embedding(employee_id, embedding) of the loop, and the return
\* after the last one.
EnrollAdd(fails) ==
    /\ enroll.pc = "add"
    /\ LET r == add_embedding(Store, foreign_keys,
                              enroll.session.employee_id,
                              enroll.embeddings[enroll.i])
       IN  IF fails \/ r.raised
           THEN /\ EnrollReturns(Error("exception"))
                /\ UNCHANGED <<db_employees, db_embeddings>>
           ELSE /\ StoreBecomes(r.D)
                /\ IF enroll.i = Len(enroll.embeddings)
                   THEN EnrollReturns(Ok("registered"))
                   ELSE /\ enroll' = [enroll EXCEPT !.i = @ + 1]
                        /\ UNCHANGED db_return
    /\ UNCHANGED <<now, policyVars, policyHist, lockVars, bleVars,
                   receiverVars, clientVars, egressVars, error_count, best_match, loopVars, foreign_keys, snapshot,
                   enrollments, gpioVars>>

\* recognition_loop: employees_data =
\* self.db.get_active_employees_with_embeddings(), on the pipeline thread.
Snapshot ==
    /\ snapshot' = [employees |-> get_active_employees_with_embeddings(Store),
                    during |-> enroll]
    /\ UNCHANGED <<now, policyVars, policyHist, lockVars, bleVars,
                   receiverVars, clientVars, egressVars, error_count, best_match, loopVars, foreign_keys, db_employees,
                   db_embeddings, enroll, db_return, enrollments, gpioVars>>

\* The dict recognition_loop hands to process_access_attempt: the row
\* get_employee returned, None when it returned none.
employee_record(employee_id, row) ==
    IF row.present
    THEN [employee_id |-> employee_id, is_active |-> row.is_active,
          access_start |-> row.access_start, access_end |-> row.access_end]
    ELSE NoEmployee

\* recognition_loop on a stable face, up to the candidates' list:
\* employees_data = self.db.get_active_employees_with_embeddings().
PipelineSnapshot ==
    /\ callers["pipeline"].pc = "idle"
    /\ snapshot' = [employees |-> get_active_employees_with_embeddings(Store),
                    during |-> enroll]
    /\ callers' = [callers EXCEPT !["pipeline"].pc = "lookup"]
    /\ UNCHANGED <<now, policyVars, policyHist, is_unlocking, relay, workers,
                   last_button_time, was_pressed, driveLog, cycle, relayCause,
                   lastUnlock>>
    /\ UNCHANGED <<bleVars, receiverVars, clientVars, egressVars, error_count,
                   best_match, loopVars, foreign_keys, db_employees,
                   db_embeddings, enroll, db_return, enrollments, gpioVars>>

\* The employees find_best_match can return from the list taken: those with
\* an embedding in it.
Candidates == { id \in Ids : snapshot.employees[id] # {} }

\* recognition_loop from find_best_match on: the match is one of the listed
\* employees or nobody, `if employee_id:` the row is read with
\* get_employee, then process_access_attempt decides and the attempt is
\* logged.
PipelineLookup ==
    /\ DecisionAt("lookup",
          { <<employee_record(id, get_employee(Store, id)), similarity_threshold>> :
               id \in Candidates }
          \cup { <<NoEmployee, similarity_threshold>> })
    /\ UNCHANGED loopVars

\* ------------------------------------- calls of the store between enrollments

\* (access_start, access_end) a caller passes: a window, an empty one and a
\* reversed one.
StorePeriods ==
    { <<PeriodA.start, PeriodA.end>>, <<PeriodA.start, PeriodA.start>>,
      <<PeriodA.end, PeriodA.start>> }

\* The store and db_return after call r of operation op on employee_id.
StoreCall(op, employee_id, r) ==
    /\ enroll.pc = "idle"
    /\ StoreBecomes(r.D)
    /\ db_return' = [op |-> op, employee_id |-> employee_id,
                     value |-> IF r.raised THEN "raised" ELSE r.value]
    /\ UNCHANGED <<now, policyVars, policyHist, lockVars, bleVars,
                   receiverVars, clientVars, egressVars, error_count, best_match, loopVars, foreign_keys, enroll, snapshot,
                   enrollments, gpioVars>>

DbUpsertEmployee ==
    \E id \in Ids, w \in StorePeriods :
       StoreCall("upsert_employee", id,
                 upsert_employee(Store, id, w[1], w[2], "Ann", TRUE))

DbUpdatePeriod ==
    \E id \in Ids, w \in StorePeriods :
       StoreCall("update_employee_period", id,
                 update_employee_period(Store, id, w[1], w[2]))

DbDeactivate ==
    \E id \in Ids :
       StoreCall("deactivate_employee", id, deactivate_employee(Store, id))

DbDelete ==
    \E id \in Ids :
       StoreCall("delete_employee", id,
                 delete_employee(Store, foreign_keys, id))

DbAddEmbedding ==
    \E id \in Ids :
       StoreCall("add_embedding", id,
                 add_embedding(Store, foreign_keys, id, Vector(0, 1)))

DbDeleteEmbeddings ==
    \E id \in Ids :
       StoreCall("delete_embeddings", id, delete_embeddings(Store, id))

DbGetEmployee ==
    \E id \in Ids :
       StoreCall("get_employee", id,
                 Returns(Store, get_employee(Store, id)))

\* Database.__init__ on a library whose foreign-key default is fk; no
\* enrollment has run.
InitStore(fk) ==
    /\ foreign_keys = fk
    /\ db_employees = [id \in Ids |-> NoDbRow]
    /\ db_embeddings = {}
    /\ enroll = IdleEnroll
    /\ db_return = NoReturn
    /\ snapshot = NoSnapshot
    /\ enrollments = 0

\* The store after an earlier enrollment of employee "e1" with one photo.
InitEnrolled(fk) ==
    /\ foreign_keys = fk
    /\ db_employees =
          [id \in Ids |->
              IF id = "e1"
              THEN upsert_employee([employees |-> [i \in Ids |-> NoDbRow],
                                    embeddings |-> {}],
                                   "e1", PeriodA.start, PeriodA.end, "Ann",
                                   TRUE).D.employees["e1"]
              ELSE NoDbRow]
    /\ db_embeddings =
          {[employee_id |-> "e1", embedding |-> tobytes(Vector(0, 1))]}
    /\ enroll = IdleEnroll
    /\ db_return = NoReturn
    /\ snapshot = NoSnapshot
    /\ enrollments = 0

\* ---------------------------------------------------------- specifications

Init ==
    /\ InitPolicy
    /\ InitLock
    /\ InitBLE(DefaultConfig)
    /\ InitReceiver(0)
    /\ InitStore(FALSE)

\* The access policy alone, called with arbitrary arguments.
SpecPolicy == Init /\ [][NextPolicy]_vars

Next ==
    \/ Tick(StartTime + PipeTicks * TickStep)
    \/ PipelineDecide
    \/ PipelineCheck
    \/ PipelineWake
    \/ \E c \in Callers : UnlockEnter(c)
    \/ \E c \in Callers : UnlockSpawn(c)
    \/ \E w \in Workers : WorkerUnlock(w)
    \/ \E w \in Workers : WorkerRelock(w)
    \/ \E w \in Workers : WorkerFinish(w)
    \/ \E is_pressed \in BOOLEAN : ButtonPoll(is_pressed)

\* The recognition loop, the exit button and the lock running concurrently.
Spec == Init /\ [][Next]_vars

\* The system from run() on: the button monitor is started, then the
\* recognition loop opens the camera; the camera and the steps of an
\* iteration can fail, and so can the audit log.
InitRun ==
    /\ InitPolicy
    /\ InitLockFrom("open")
    /\ InitBLE(DefaultConfig)
    /\ InitReceiver(0)
    /\ InitStore(FALSE)

NextRun ==
    \/ Tick(StartTime + PipeTicks * TickStep)
    \/ \E opened \in BOOLEAN : PipelineOpen(opened)
    \/ PipelineIterationError
    \/ PipelineDecide
    \/ PipelineCheck
    \/ PipelineWake
    \/ \E c \in Callers : UnlockEnter(c)
    \/ \E c \in Callers : UnlockSpawn(c)
    \/ \E w \in Workers : WorkerUnlock(w)
    \/ \E w \in Workers : WorkerRelock(w)
    \/ \E w \in Workers : WorkerFinish(w)
    \/ \E is_pressed \in BOOLEAN : ButtonPoll(is_pressed)

SpecRun == InitRun /\ [][NextRun]_vars

\* The recognition loop frame by frame, with the supervisor and the lock.
NextLoop ==
    \/ Tick(StartTime + PipeTicks * TickStep)
    \/ PipelineIterationError
    \/ LoopNoFace
    \/ \E face \in FacePositions, step \in FrameSteps(0) \cup FrameSteps(FACE_STABLE_THRESHOLD) :
          LoopFace(face, step)
    \/ \E face \in FacePositions : LoopDecide(face)
    \/ PipelineCheck
    \/ PipelineWake
    \/ UnlockEnter("pipeline")
    \/ UnlockSpawn("pipeline")
    \/ \E w \in Workers : WorkerUnlock(w)
    \/ \E w \in Workers : WorkerRelock(w)
    \/ \E w \in Workers : WorkerFinish(w)

SpecLoop == Init /\ [][NextLoop]_vars

\* The lock, the exit button and cleanup() on shutdown.
NextCleanup ==
    \/ Tick(LastTime)
    \/ \E is_pressed \in BOOLEAN : ButtonPoll(is_pressed)
    \/ UnlockEnter("button")
    \/ UnlockSpawn("button")
    \/ \E w \in Workers : WorkerUnlock(w)
    \/ \E w \in Workers : WorkerRelock(w)
    \/ \E w \in Workers : WorkerFinish(w)
    \/ CleanupStart
    \/ CleanupForceLock
    \/ \E kept \in BOOLEAN : CleanupRelease(kept)

SpecCleanup == Init /\ [][NextCleanup]_vars

\* DEACTIVATE or DELETE for employee "e1" reaches the store.
Revoke ==
    \/ StoreCall("deactivate_employee", "e1", deactivate_employee(Store, "e1"))
    \/ StoreCall("delete_employee", "e1",
                 delete_employee(Store, foreign_keys, "e1"))

\* Employee "e1" is enrolled again: the row, then an embedding.
EnrollAgain ==
    \/ StoreCall("upsert_employee", "e1",
                 upsert_employee(Store, "e1", PeriodA.start, PeriodA.end,
                                 "Ann", TRUE))
    \/ StoreCall("add_embedding", "e1",
                 add_embedding(Store, foreign_keys, "e1", Vector(0, 1)))

\* The recognition loop from the candidates' list to the unlock, while the
\* store is changed from the BLE side; employee "e1" is enrolled.
InitRevoke ==
    /\ InitPolicy
    /\ InitLock
    /\ InitBLE(DefaultConfig)
    /\ InitReceiver(0)
    /\ \E fk \in BOOLEAN : InitEnrolled(fk)

NextRevoke ==
    \/ Tick(StartTime + PipeTicks * TickStep)
    \/ PipelineSnapshot
    \/ PipelineLookup
    \/ PipelineCheck
    \/ PipelineWake
    \/ UnlockEnter("pipeline")
    \/ UnlockSpawn("pipeline")
    \/ \E w \in Workers : WorkerUnlock(w)
    \/ \E w \in Workers : WorkerRelock(w)
    \/ \E w \in Workers : WorkerFinish(w)
    \/ Revoke
    \/ EnrollAgain

SpecRevoke == InitRevoke /\ [][NextRevoke]_vars

\* The recognition loop and its camera under _recognition_loop_wrapper.
NextCamera ==
    \/ Tick(StartTime + BackoffTicks * TickStep)
    \/ \E opened \in BOOLEAN : SupervisedOpen(opened)
    \/ PipelineWake
    \/ PipelineIterationError
    \/ \E reopened \in BOOLEAN : LoopReadFailure(reopened)
    \/ LoopNoFace
    \/ PipelineStop

SpecCamera == InitRun /\ [][NextCamera]_vars

InitAnyConfig ==
    /\ InitPolicy
    /\ InitLock
    /\ \E cfg \in BleConfigs : InitBLE(cfg)
    /\ InitReceiver(0)
    /\ InitStore(FALSE)

NextBLE ==
    \/ StartNotify
    \/ StopNotify
    \/ ClientCommand

\* Clients connecting, sending complete commands and disconnecting, under
\* each configuration.
SpecBLE == InitAnyConfig /\ [][NextBLE]_vars

\* The framed receiver under clients that queue valid and corrupt frames and
\* a link that cuts the queued bytes into writes of any size.  The first
\* connection is taken either from its start or at the point where the
\* client's counter is about to roll over or has just done so.
StartSeqs == {0, 255, 256}

InitRx ==
    /\ InitPolicy
    /\ InitLock
    /\ InitBLE(DefaultConfig)
    /\ \E seq0 \in StartSeqs : InitReceiver(seq0)
    /\ InitStore(FALSE)

NextRx ==
    \/ StartNotify
    \/ StopNotify
    \/ ClientSend
    \/ LinkWrite
    \/ OnTimeout

SpecRx == InitRx /\ [][NextRx]_vars

\* The store on a library built with either foreign-key default.
InitAnyStore ==
    /\ InitPolicy
    /\ InitLock
    /\ InitBLE(DefaultConfig)
    /\ InitReceiver(0)
    /\ \E fk \in BOOLEAN : InitStore(fk)

NextStore ==
    \/ DbUpsertEmployee
    \/ DbUpdatePeriod
    \/ DbDeactivate
    \/ DbDelete
    \/ DbAddEmbedding
    \/ DbDeleteEmbeddings
    \/ DbGetEmployee

\* The Database called by the dispatcher's callbacks and the admin tool.
SpecStore == InitAnyStore /\ [][NextStore]_vars

\* A client uploading photos in chunks to a server configured without
\* signatures.
InitChunk ==
    /\ InitPolicy
    /\ InitLock
    /\ InitBLE(ChunkConfig)
    /\ InitReceiver(0)
    /\ InitStore(FALSE)

NextChunk ==
    \/ StartNotify
    \/ StopNotify
    \/ ChunkCommand

SpecChunk == InitChunk /\ [][NextChunk]_vars

\* The commands of a client that opens a session for SessionPhotos photos,
\* sends chunks and ends the session.
SessionCommands(B) ==
    { Command("BEGIN_UPSERT", "e1", PeriodA, SessionPhotos),
      Command("END_UPSERT", None, NoPeriod, 0) }
    \cup { PhotoChunk(d, FALSE, NoHash) : d \in ChunkData(B) }
    \cup { PhotoChunk(d, TRUE, SHA256(photo)) :
              d \in ChunkData(B), photo \in ClientPhotos }

\* That client writes a complete command.
SessionCommand ==
    \E cmd \in SessionCommands(Ble) :
       \E n_embeddings \in EmbeddingCounts(cmd) :
          ProcessMessageBounded(cmd, n_embeddings,
                                SessionPhotos + ExtraPhotos)

NextSession ==
    \/ StartNotify
    \/ StopNotify
    \/ SessionCommand

\* A client that may go on sending photos after the session has received
\* the number it was opened for.
SpecSession == InitChunk /\ [][NextSession]_vars

\* The store before the first enrollment or after an earlier one.
InitAnyEnroll ==
    /\ InitPolicy
    /\ InitLock
    /\ InitBLE(DefaultConfig)
    /\ InitReceiver(0)
    /\ \E fk \in BOOLEAN : InitStore(fk) \/ InitEnrolled(fk)

NextEnroll ==
    \/ \E session \in EnrollSessions :
          \E n_valid \in 0 .. MaxVectors : EnrollBegin(session, n_valid)
    \/ \E fails \in BOOLEAN : EnrollUpsert(fails)
    \/ \E fails \in BOOLEAN : EnrollDelete(fails)
    \/ \E fails \in BOOLEAN : EnrollAdd(fails)
    \/ Snapshot
    \/ DbDeactivate

\* The enrollment processor on the dispatcher thread, store call by store
\* call, with the recognition loop reading the store on the pipeline thread
\* and employees being deactivated between enrollments.
SpecEnroll == InitAnyEnroll /\ [][NextEnroll]_vars

NextNotify ==
    \/ StartNotify
    \/ StopNotify
    \/ SendNotification

NextHmac ==
    \/ Tick(StartTime + TickStep)
    \/ StartNotify
    \/ StopNotify
    \/ FreshnessCommand

\* Clients whose clocks differ from the server's, under each configuration.
SpecHmac == InitAnyConfig /\ [][NextHmac]_vars

\* Responses notified to clients that subscribe and unsubscribe.
SpecNotify == Init /\ [][NextNotify]_vars

\* The employees table and the embeddings table as calls of upsert_employee,
\* deactivate_employee and add_embedding leave them: each employee absent,
\* active or deactivated, with any of MaxVectors embeddings; an embedding of
\* an absent employee only where foreign keys are not enforced.
EmployeeStates(id) ==
    LET empty == [employees |-> [i \in Ids |-> NoDbRow], embeddings |-> {}]
        added == upsert_employee(empty, id, PeriodA.start, PeriodA.end,
                                 "Ann", TRUE).D
    IN  { NoDbRow, added.employees[id],
          deactivate_employee(added, id).D.employees[id] }

EmbeddingRows ==
    { [employee_id |-> id, embedding |-> tobytes(Vector(0, i))] :
      id \in Ids, i \in 1 .. MaxVectors }

InitSnapshot ==
    /\ InitPolicy
    /\ InitLock
    /\ InitBLE(DefaultConfig)
    /\ InitReceiver(0)
    /\ foreign_keys \in BOOLEAN
    /\ db_employees \in { f \in [Ids -> UNION { EmployeeStates(id) : id \in Ids }] :
                             \A id \in Ids : f[id] \in EmployeeStates(id) }
    /\ db_embeddings \in SUBSET EmbeddingRows
    /\ foreign_keys => \A e \in db_embeddings : db_employees[e.employee_id].present
    /\ enroll = IdleEnroll
    /\ db_return = NoReturn
    /\ snapshot = NoSnapshot
    /\ enrollments = 0

\* The arguments of the find_best_match calls: stored embeddings in four
\* directions, up to MaxVectors per employee, the
\* employees in either order, a query that is a unit vector or the zero
\* vector, and a matcher threshold of 0, of similarity_threshold or of
\* exactly the cosine of 45 degrees.
MatchVectors ==
    { Direction(0), Direction(1), Direction(7), Direction(4) }
MatchQueries == { Direction(0), ZeroVector }
MatchThresholds == { 0, similarity_threshold, Cosines[2] }
EmbeddingLists == UNION { [1 .. n -> MatchVectors] : n \in 0 .. MaxVectors }
CandidateRow(id) ==
    [employee_id |-> id, display_name |-> IF id = "e1" THEN "Ann" ELSE "Bob"]
IdOrders == { <<>>, <<"e1">>, <<"e2">>, <<"e1", "e2">>, <<"e2", "e1">> }
CandidateLists ==
    UNION { { [i \in 1 .. Len(order) |-> <<CandidateRow(order[i]), lists[i]>>] :
              lists \in [1 .. Len(order) -> EmbeddingLists] } :
            order \in IdOrders }
MatchCalls ==
    [threshold : MatchThresholds, query_embedding : MatchQueries,
     employee_embeddings : CandidateLists, returned : {FALSE},
     result : {NoBest}]

InitMatch ==
    /\ InitPolicy
    /\ InitLockFields("idle")
    /\ best_match \in MatchCalls
    /\ InitBLE(DefaultConfig)
    /\ InitReceiver(0)
    /\ InitStore(FALSE)

\* recognition_loop: self.matcher.find_best_match(embedding, employees_data)
\* returns.
Match ==
    /\ ~best_match.returned
    /\ best_match' =
          [best_match EXCEPT
              !.returned = TRUE,
              !.result = find_best_match(best_match.threshold,
                                         best_match.query_embedding,
                                         best_match.employee_embeddings)]
    /\ UNCHANGED <<now, policyVars, policyHist, lockVars, storeVars, bleVars,
                   receiverVars, clientVars, egressVars, error_count, loopVars,
                   gpioVars>>

NextMatch == Match

SpecMatch == InitMatch /\ [][NextMatch]_vars

NextSnapshot ==
    \/ Snapshot
    \/ DbDeactivate
    \/ DbDeleteEmbeddings

SpecSnapshot == InitSnapshot /\ [][NextSnapshot]_vars

\* The run of the cooldown lasts three cooldowns.
CooldownLast == StartTime + 3 * cooldown_sec

NextCooldown ==
    \/ ShortTick(CooldownLast)
    \/ PolicyAttempt
    \/ PolicyRate

SpecCooldown == Init /\ [][NextCooldown]_vars

NextPeriod ==
    \/ Tick(LastTime)
    \/ PolicyValidate

SpecPeriod == Init /\ [][NextPeriod]_vars

\* ------------------------------------------------------------ claims: policy

\* An attempt that matches an enrolled identity with a score at or above the
\* threshold.
IsMatchingAttempt(c) ==
    /\ c.op = "attempt"
    /\ c.employee.employee_id # None
    /\ c.score >= similarity_threshold

\* C3: after process_access_attempt granted identity X at time t, an attempt
\* matching X whose lockout check runs before t + granted_lockout_sec is
\* denied with the lockout reason, and the grants recorded for one identity
\* are at least granted_lockout_sec apart.
C3_GrantLockout ==
    /\ \A id \in Ids : \A i \in 1 .. Len(grantLog[id]) - 1 :
          grantLog[id][i + 1] - grantLog[id][i] >= granted_lockout_sec
    /\ (IsMatchingAttempt(call) /\ call.prevGrant # 0
         /\ call.t1 < call.prevGrant + granted_lockout_sec)
        => (~call.granted /\ call.reason = "recently_granted")

\* C3 witness: a matching attempt inside the lockout of an earlier grant was
\* denied as recently granted, and a second grant of that identity followed.
C3_Witness ==
    /\ IsMatchingAttempt(call)
    /\ call.prevGrant # 0
    /\ call.t1 < call.prevGrant + granted_lockout_sec
    /\ call.reason = "recently_granted"
    /\ \E id \in Ids : Len(grantLog[id]) >= 1

\* C4: for every identity and every window (w, w + 60 s], at most
\* max_attempts_per_minute check_rate_limit calls were accepted inside it; a
\* call that finds that many accepted calls in the last 60 s is rejected, and
\* only accepted calls are recorded in the identity's timestamp list.
C4_RateWindow ==
    /\ \A id \in Ids : \A i \in 1 .. Len(acceptedLog[id]) :
          Cardinality({ j \in 1 .. i :
                          acceptedLog[id][j] >
                              acceptedLog[id][i] - RateWindowSec })
              <= max_attempts_per_minute
    /\ (call.op = "rate" /\ call.prevCount >= max_attempts_per_minute)
           => ~call.ok
    /\ \A id \in Ids : \A t \in { attempt_timestamps[id][k] :
                                      k \in 1 .. Len(attempt_timestamps[id]) } :
          Cardinality({ k \in 1 .. Len(attempt_timestamps[id]) :
                          attempt_timestamps[id][k] = t })
              <= Cardinality({ k \in 1 .. Len(acceptedLog[id]) :
                                 acceptedLog[id][k] = t })

\* C4 witness: a call was rejected by the per-identity limit, having found
\* max_attempts_per_minute accepted calls in the last 60 s.
C4_Witness ==
    /\ call.op = "rate"
    /\ call.employee_id # None
    /\ call.prevCount >= max_attempts_per_minute
    /\ call.reason = "rate_limit"
    /\ ~call.ok

\* The first check of the fixed order that fails for the attempt c, or
\* "granted" when none does; each check is evaluated on the state it would
\* find when the checks before it passed.
FirstFailing(c) ==
    LET id == c.employee.employee_id
        rate == check_rate_limit(c.pre, id, c.t2)
    IN  IF id = None THEN "not_recognized"
        ELSE IF c.score < similarity_threshold THEN "low_score"
        ELSE IF ~check_granted_lockout(c.pre, id, c.t1).ok
             THEN "recently_granted"
        ELSE IF ~rate.ok THEN rate.reason
        ELSE IF ~check_employee_active(c.employee).ok THEN "deactivated"
        ELSE IF ~check_access_period(c.employee, c.t3).ok
             THEN check_access_period(c.employee, c.t3).reason
        ELSE "granted"

\* C5: process_access_attempt grants iff the employee is non-null, the score
\* reaches the threshold and the lockout, rate-limit, active and period
\* checks pass, in that order; a denial carries the reason of the first
\* failing check, a check after it leaves no trace in the policy state, and
\* the grant is recorded iff the result is granted.
C5_Orchestration ==
    call.op = "attempt" =>
      LET id == call.employee.employee_id
          first == FirstFailing(call)
      IN  /\ call.granted <=> first = "granted"
          /\ call.reason = first
          /\ first \in {"not_recognized", "low_score", "recently_granted",
                         "cooldown"} => Policy = call.pre
          /\ first \in {"rate_limit", "deactivated", "not_yet_valid",
                         "expired", "period_error"}
                => /\ Policy = check_rate_limit(call.pre, id, call.t2).P
                   /\ last_granted_time = call.pre.last_granted_time
          /\ first = "granted"
                => /\ last_granted_time =
                        [call.pre.last_granted_time EXCEPT ![id] = call.t4]
                   /\ attempt_timestamps =
                        check_rate_limit(call.pre, id, call.t2)
                            .P.attempt_timestamps

\* C5 witness: an attempt that passed every check was granted and recorded.
C5_Witness ==
    /\ call.op = "attempt"
    /\ call.granted
    /\ last_granted_time[call.employee.employee_id] = call.t4
    /\ call.ran = <<"lockout", "rate", "access", "record">>

\* ------------------------------------------------------------- claims: lock

\* Unlock workers in flight: threads that exist plus threads a caller that
\* holds the flag is about to start.
InFlight ==
    Cardinality({ w \in Workers : workers[w].pc # "none" })
    + Cardinality({ c \in Callers : callers[c].pc = "spawn" })

\* One step of the lock as C1 allows it.
C1_Step ==
    /\ InFlight' <= 1
    /\ InFlight' = 1 => is_unlocking'
    /\ \A c \in Callers :
          (callers[c].pc = "unlock" /\ is_unlocking /\ callers'[c] # callers[c])
            => /\ callers'[c].pc # "spawn"
               /\ workers' = workers
               /\ relay' = relay
               /\ driveLog' = driveLog
               /\ is_unlocking' = is_unlocking
    /\ (relay' # relay \/ Len(driveLog') > Len(driveLog)) => is_unlocking
    /\ cycle' = "never" => (driveLog' = <<>> /\ ~relay')
    /\ cycle' = "open" => driveLog' \in {<<>>, <<TRUE>>, <<TRUE, FALSE>>}
    /\ cycle' = "closed" => (driveLog' = <<TRUE, FALSE>> /\ ~relay')

\* C1: at most one unlock worker is in flight at any time; an unlock() call
\* made while the in-progress flag is set starts no worker and does not touch
\* the relay; every false->true->false cycle of the flag drives the relay
\* active and then inactive exactly once.
C1_SingleWorker == [][C1_Step]_vars

\* C1 witness: an unlock() call found the flag set and was dropped, and the
\* flag cycle it fell into has ended with the relay driven active, then
\* inactive.
C1_Witness ==
    /\ lastUnlock.flag
    /\ ~lastUnlock.start
    /\ cycle = "closed"
    /\ driveLog = <<TRUE, FALSE>>
    /\ ~is_unlocking

\* C2: the relay is active only through an unlock that a granted face
\* decision or an exit-button press triggered; a face decision that is denied,
\* whatever the reason, does not lead the recognition loop to unlock().
C2_RelayCause ==
    /\ relay => /\ relayCause.src \in {"face", "button"}
                /\ relayCause.src = "face"
                     => (relayCause.granted /\ relayCause.reason = "granted")
    /\ \A w \in Workers :
          (workers[w].pc # "none" /\ workers[w].cause.src # "button")
            => (workers[w].cause.src = "face" /\ workers[w].cause.granted)
    /\ (call.op = "attempt" /\ FirstFailing(call) # "granted")
          => callers["pipeline"].pc \in {"idle", "sleep", "denied"}
    /\ callers["pipeline"].pc \in {"check", "unlock", "spawn"}
          => (call.op = "attempt" /\ call.granted
              /\ FirstFailing(call) = "granted")

\* C2 witness: the relay is active for a granted face decision, and the face
\* decision made since then was denied.
C2_Witness ==
    /\ relay
    /\ relayCause.src = "face"
    /\ relayCause.granted
    /\ call.op = "attempt"
    /\ ~call.granted
    /\ call.reason = "recently_granted"

\* ---------------------------------------------------------- claims: protocol

\* One step in which a command whose nonce verify_hmac accepted before is
\* processed: C6 wants it answered with ERROR, store and session untouched.
C6_Step ==
    \A cmd \in BleCommands(now) :
       \A n_embeddings \in EmbeddingCounts(cmd) :
          (/\ hmac_enabled
           /\ cmd.nonce \in acceptedNonces
           /\ ProcessMessage(cmd, n_embeddings))
            => /\ response'.type = "ERROR"
               /\ employees' = employees
               /\ current_session' = current_session

\* C6: with HMAC enabled, once verify_hmac has accepted a command carrying
\* nonce n, every later command carrying n is rejected, however many other
\* commands were accepted in between, and the rejected command changes
\* neither the store nor the upsert session.
C6_NoReplay == [][C6_Step]_vars

\* The credential defects C7 lists, for a command processed now.
CredentialFailure(cmd) ==
    \/ ~admin_mode_enabled
    \/ /\ hmac_enabled
       /\ \/ shared_secret = None
          \/ ~cmd.hmac.present
          \/ ~cmd.nonce.present
          \/ cmd.nonce \in used_nonces
          \/ ~cmd.nonce.parses
          \/ Abs(now - cmd.nonce.ts) > NonceMaxAgeSec
          \/ cmd.hmac # HMAC(shared_secret, Serialize(cmd))

\* The responses the credential checks give.
Refusals ==
    { Error("admin_disabled"), Error("hmac_failed"), Error("unknown_command") }

\* In the current state every BEGIN_UPSERT, UPDATE_PERIOD, DEACTIVATE or
\* DELETE with a credential defect is refused by the dispatcher, and DELETE by
\* handle_delete, with the protocol state and the store returned as they are.
C7_Handlers ==
    \A cmd \in BleCommands(now) :
       (/\ cmd.command \in {"BEGIN_UPSERT", "UPDATE_PERIOD", "DEACTIVATE",
                            "DELETE"}
        /\ CredentialFailure(cmd))
         => /\ process_command(Ble, cmd, now, 0).response \in Refusals
            /\ process_command(Ble, cmd, now, 0).B = Ble
            /\ cmd.command = "DELETE"
                => /\ handle_delete(Ble, cmd, now).response \in Refusals
                   /\ handle_delete(Ble, cmd, now).B = Ble

\* A step that processes a command and refuses it changes nothing.
C7_Step ==
    (notifying /\ notifying' /\ response' \in Refusals)
      => UNCHANGED <<employees, current_session, photo_buffer, used_nonces>>

\* C7: every BEGIN_UPSERT, UPDATE_PERIOD, DEACTIVATE or DELETE that fails the
\* admin-mode check or the HMAC validation (missing signature or nonce,
\* mismatch, reused nonce, stale nonce, missing secret) is answered with ERROR
\* and leaves the store, the upsert session, the photo accumulator and the
\* nonce ledger unchanged, also when admin mode is disabled and the command
\* is correctly signed.
C7_RejectedUnchanged == []C7_Handlers /\ [][C7_Step]_vars

\* C7 witness: a command was refused for its credentials while a session was
\* open, an employee was enrolled and the ledger held a nonce.
C7_Witness ==
    /\ response = Error("hmac_failed")
    /\ current_session.active
    /\ employees["e1"].present
    /\ used_nonces # {}

\* One step as C8 allows it.
C8_Step ==
    /\ ~begunOnConn' => (~current_session'.active /\ photo_buffer' = <<>>)
    /\ \A cmd \in PlainCommands :
          \A n_embeddings \in EmbeddingCounts(cmd) :
             (/\ cmd.command \in {"PHOTO_CHUNK", "END_UPSERT"}
              /\ ~begunOnConn
              /\ ProcessMessage(cmd, n_embeddings))
               => (response'.type = "ERROR" /\ employees' = employees)

\* C8: after a connection start or end event there is no upsert session and
\* the photo accumulator is empty; a PHOTO_CHUNK or END_UPSERT that arrives
\* on a connection before any BEGIN_UPSERT of that connection is answered
\* with ERROR and does not change the store.
C8_ConnectionReset == [][C8_Step]_vars

\* ------------------------------------------------------ claims: the receiver

IsPrefix(s, t) == Len(s) <= Len(t) /\ SubSeq(t, 1, Len(s)) = s

\* Every queued byte has been written and the receiver holds no partial frame.
Quiescent == wire = <<>> /\ rx_buffer = <<>> /\ rx_state = "WAIT_HEADER"

\* C9: whatever corrupt input (duplicate sequence numbers, zero or oversized
\* lengths, cut-off payloads, payloads that are no JSON) is interleaved with
\* valid frames, the dispatcher receives the payloads of the valid frames and
\* nothing else, in order, and has received each exactly once when the
\* receiver is back in WAIT_HEADER with nothing left to read (stated for the
\* connections on which the sequence counter has not rolled over).
C9_CorruptInputRecovery ==
    ~rolledOver =>
       /\ IsPrefix(delivered, expected)
       /\ Quiescent => delivered = expected

\* C10: when every frame is well formed and carries the rolling counter, the
\* dispatcher receives exactly the payloads of the frames, once each and in
\* order, however the bytes are cut into writes: never anything but a prefix
\* of them, and all of them once the last byte is written.
C10_FramesDeliveredInOrder ==
    wellFormed =>
       /\ IsPrefix(delivered, expected)
       /\ wire = <<>> => delivered = expected

\* C11: a frame that repeats the sequence number of the last accepted frame
\* is discarded whole (its 3-byte header and its L payload bytes), also when
\* its bytes arrive in several writes; no command is dispatched for it and
\* the frame behind it is parsed from its first byte.  So when duplicates are
\* the only irregular frames (and the counter has not rolled over), the
\* dispatcher receives exactly the payloads of the other frames, and the
\* receiver is idle once every byte is written.
C11_DuplicateDiscarded ==
    (onlyDuplicates /\ ~rolledOver) =>
       /\ IsPrefix(delivered, expected)
       /\ wire = <<>> => /\ delivered = expected
                         /\ rx_buffer = <<>>
                         /\ rx_state = "WAIT_HEADER"

\* The receiver as reset_state leaves it.
ReceiverReset ==
    /\ rx_state = "WAIT_HEADER"
    /\ rx_buffer = <<>>
    /\ expected_len = 0
    /\ last_seq = -1
    /\ ~timeout_handle

\* A subscribe or unsubscribe event leaves the receiver reset.
C12_Step == notifying' # notifying => ReceiverReset'

\* A reset receiver accepts a first frame with any sequence number.
C12_FirstFrame ==
    ReceiverReset =>
       \A seq \in 0 .. 255 :
          \A p \in ValidPayloads :
             LET R == Drain([Receiver EXCEPT !.timer = TRUE,
                                             !.buf = Frame(Len(p), seq, p)])
             IN  /\ R.out = <<p>>
                 /\ R.last_seq = seq
                 /\ R.buf = <<>>
                 /\ R.state = "WAIT_HEADER"

VectorsOf(rows) == {frombuffer(e.embedding) : e \in rows}

\* The vectors of the enrollment e and the ones its employee had before.
NewVectors(e) == {e.embeddings[j] : j \in 1 .. Len(e.embeddings)}
OldVectors(e) == VectorsOf(e.old.embeddings)

\* Enrollment e is of an employee who was active with embeddings before.
IsReenrollment(e) ==
    /\ e.old.row.present
    /\ e.old.row.is_active
    /\ e.old.embeddings # {}

\* C13: re-enrollment is atomic.  A snapshot the pipeline takes while the
\* processor is at work holds either the complete old or the complete new
\* set of the employee's vectors, never none or a part; and when the
\* processor returns an error the old set is still in the store.
C13_AtomicReenrollment ==
    /\ (snapshot.during.pc # "idle" /\ IsReenrollment(snapshot.during))
         => snapshot.employees[snapshot.during.session.employee_id]
               \in {OldVectors(snapshot.during), NewVectors(snapshot.during)}
    /\ (/\ enroll.pc = "idle"
        /\ IsReenrollment(enroll)
        /\ db_return.op = "process_registration_photos"
        /\ db_return.value.type = "ERROR")
         => EmbeddingsOf(Store, enroll.session.employee_id)
               = enroll.old.embeddings

\* C14: in every reachable store state each employee row has its access_end
\* strictly after its access_start; a write whose end is not after its
\* start is refused and leaves the row as it was.
C14_WindowOrdered ==
    \A id \in DOMAIN db_employees :
        db_employees[id].present
            => db_employees[id].access_end.t > db_employees[id].access_start.t

\* C15: in every reachable store state every embedding row is owned by an
\* existing employee row: delete_employee removes the employee's embeddings
\* with the row, and add_embedding for an id without a row is rejected.
C15_EmbeddingsOwned ==
    \A e \in db_embeddings : db_employees[e.employee_id].present

\* ------------------------------------------------------- claims: END_UPSERT

EndUpsert == Command("END_UPSERT", None, NoPeriod, 0)

\* The session is complete: it exists and has received its num_photos photos.
SessionComplete(B) ==
    /\ B.current_session.active
    /\ B.current_session.photos_received = B.current_session.num_photos

\* The ways a callback can end on protocol state B: the wired processor with
\* every number of embeddings, and a callback that raises.
CallbackOutcomes(B) ==
    { CallbackReturns(process_registration_photos(B, B.current_session, n)) :
         n \in 0 .. Len(B.current_session.photos) }
    \cup { CallbackRaises(B) }

\* END_UPSERT on protocol state B with the callback ending as cb does what
\* the claim says.
EndUpsertContract(B, cb) ==
    LET r == handle_end_upsert_callback(B, EndUpsert, cb)
    IN  IF SessionComplete(B)
        THEN /\ ~r.B.current_session.active
             /\ r.B.employees = cb.B.employees
             /\ r.response = IF cb.raised THEN Error("exception")
                             ELSE cb.response
        ELSE /\ r.B = B
             /\ r.response.type = "ERROR"
             /\ B.current_session.active
                   => r.response = Error("photos_missing")

\* The wired handler agrees with the contract for every number of embeddings
\* the processor may obtain.
EndUpsertWired(B) ==
    \A n \in 0 .. Len(B.current_session.photos) :
        LET r == handle_end_upsert(B, EndUpsert, n)
            p == process_registration_photos(B, B.current_session, n)
        IN  IF SessionComplete(B)
            THEN /\ ~r.B.current_session.active
                 /\ r.B.employees = p.B.employees
                 /\ r.response = p.response
            ELSE /\ r.B = B
                 /\ r.response.type = "ERROR"

\* A step that answers with an outcome of the processor started from a
\* complete session and leaves no session.
C16_Step ==
    (response' # response
     /\ response'.message \in {"registered", "no_valid_embeddings"})
        => /\ SessionComplete(Ble)
           /\ ~current_session'.active

\* A step that answers "Expected N photos, got k" leaves the session, its
\* photos and the store as they were.
C16_Mismatch ==
    (response' # response /\ response'.message = "photos_missing")
        => /\ current_session.active
           /\ ~SessionComplete(Ble)
           /\ current_session' = current_session
           /\ employees' = employees

\* C16: END_UPSERT hands the session to the enrollment processor iff a
\* session exists and its received count equals the expected count; then no
\* session exists afterwards, whether the processor returns OK, returns
\* ERROR or raises, and the response is the processor's outcome; when the
\* count differs the response is ERROR and the session with its photos is
\* unchanged.
C16_EndUpsertHandsOver ==
    /\ [](/\ \A cb \in CallbackOutcomes(Ble) : EndUpsertContract(Ble, cb)
          /\ EndUpsertWired(Ble))
    /\ [][C16_Step /\ C16_Mismatch]_vars

\* The processor answered ERROR for a complete session, and the session is
\* gone.
C16_Witness ==
    /\ response = Error("no_valid_embeddings")
    /\ ~current_session.active
    /\ begunOnConn

\* ------------------------------------------- claims: the enrollment processor

\* process_registration_photos has returned and nothing ran since.
EnrollReturned ==
    /\ enroll.pc = "idle"
    /\ db_return.op = "process_registration_photos"

C17_WitnessNoEmbedding ==
    /\ EnrollReturned
    /\ db_return.value = Error("no_valid_embeddings")
    /\ enroll.old.embeddings # {}

\* ------------------------------------------------------ claims: PHOTO_CHUNK

\* The photos of 1 .. n bytes with the bytes 'A' and 0xFF.
PhotosUpTo(n) == UNION { [1 .. k -> {65, 255}] : k \in 1 .. n }

\* The ways to cut a photo into non-empty chunks.
RECURSIVE Splits(_)
Splits(photo) ==
    IF photo = <<>> THEN { <<>> }
    ELSE UNION { { <<SubSeq(photo, 1, j)>> \o rest :
                      rest \in Splits(SubSeq(photo, j + 1, Len(photo))) } :
                 j \in 1 .. Len(photo) }

\* The chunks sent in order on protocol state B, is_last and the hash on
\* the final one: the state reached and the responses.
RECURSIVE SendChunks(_, _, _)
SendChunks(B, chunks, sha256) ==
    IF chunks = <<>> THEN [B |-> B, responses |-> <<>>]
    ELSE LET last == Len(chunks) = 1
             r    == handle_photo_chunk(
                         B, PhotoChunk(b64encode(Head(chunks)), last,
                                       IF last THEN sha256 ELSE NoHash))
             rest == SendChunks(r.B, Tail(chunks), sha256)
         IN  [B |-> rest.B, responses |-> <<r.response>> \o rest.responses]

\* Sending the chunks on B appends photo to the session, counts it, leaves
\* the accumulator empty and everything else as it was; only the final
\* chunk is answered, with OK.
Accepted(B, chunks, photo) ==
    LET r == SendChunks(B, chunks, SHA256(photo))
    IN  /\ r.B = [B EXCEPT !.current_session.photos = Append(@, photo),
                           !.current_session.photos_received = @ + 1,
                           !.photo_buffer = <<>>]
        /\ r.responses = [i \in 1 .. Len(chunks) |->
                             IF i = Len(chunks) THEN Ok("photo_received")
                             ELSE NoResponse]

\* In a session with an empty accumulator every split of the client's
\* photos and of every photo of up to ChunkSize bytes is accepted.
C18_Splits ==
    (current_session.active /\ photo_buffer = <<>>)
        => \A photo \in ClientPhotos \cup PhotosUpTo(ChunkSize) :
              \A chunks \in Splits(photo) : Accepted(Ble, chunks, photo)

\* A step that adds a photo adds one, made of the accumulator's bytes and
\* the chunk's, counts it, keeps the earlier photos and empties the
\* accumulator.
C18_Step ==
    Len(current_session'.photos) > Len(current_session.photos)
        => /\ Len(current_session'.photos) = Len(current_session.photos) + 1
           /\ SubSeq(current_session'.photos, 1, Len(current_session.photos))
                 = current_session.photos
           /\ \E p \in ChunkPayloads(Ble) :
                 current_session'.photos[Len(current_session'.photos)]
                    = photo_buffer \o p
           /\ current_session'.photos_received
                 = current_session.photos_received + 1
           /\ photo_buffer' = <<>>

AnyChunk(B) ==
    UNION { { PhotoChunk(d, is_last, h) :
                 is_last \in BOOLEAN,
                 h \in {NoHash, SHA256(B.photo_buffer \o b64decode(d).bytes)}
                       \cup { SHA256(photo) : photo \in ClientPhotos } } :
            d \in ChunkData(B) }

\* What goes wrong with chunk cmd on protocol state B, "none" if nothing.
Failure(B, cmd) ==
    IF cmd.data = <<>> THEN "missing_chunk_data"
    ELSE IF b64decode(cmd.data).raised THEN "invalid_base64"
    ELSE IF Len(B.photo_buffer) + Len(b64decode(cmd.data).bytes)
               > B.max_photo_size
    THEN "size_exceeded"
    ELSE IF /\ cmd.is_last
            /\ cmd.sha256.present
            /\ cmd.sha256 # SHA256(B.photo_buffer \o b64decode(cmd.data).bytes)
    THEN "hash_mismatch"
    ELSE "none"

\* A failing chunk is answered with ERROR and leaves the session as it was;
\* a hash mismatch or an overflow empties the accumulator, the other two
\* leave it alone.
C19_Failing ==
    current_session.active
        => \A cmd \in AnyChunk(Ble) :
              LET r == handle_photo_chunk(Ble, cmd)
                  f == Failure(Ble, cmd)
              IN  /\ (f = "none") <=> (r.response.type # "ERROR")
                  /\ f # "none"
                        => /\ r.response = Error(f)
                           /\ r.B.current_session = current_session
                           /\ r.B.photo_buffer =
                                 IF f \in {"hash_mismatch", "size_exceeded"}
                                 THEN <<>> ELSE photo_buffer

\* After a hash mismatch or an overflow the accumulator is empty and each
\* of the client's photos, sent again in any split, is accepted.
C19_Resend ==
    (current_session.active
     /\ response.message \in {"hash_mismatch", "size_exceeded"})
        => /\ photo_buffer = <<>>
           /\ \A photo \in ClientPhotos :
                 \A chunks \in Splits(photo) : Accepted(Ble, chunks, photo)

\* A step answered with one of the chunk errors keeps the session.
C19_Step ==
    (current_session.active
     /\ response' # response
     /\ response'.message \in {"hash_mismatch", "size_exceeded",
                               "invalid_base64", "missing_chunk_data"})
        => /\ response'.type = "ERROR"
           /\ current_session' = current_session

\* C19: a PHOTO_CHUNK that fails inside a session (sha256 mismatch on the
\* last chunk, size limit exceeded, invalid base64, missing data) is
\* answered with ERROR and keeps the session with its photos and count; a
\* hash mismatch or a size overflow also empties the accumulator, so the
\* accumulator never holds more than max_photo_size bytes and the same photo
\* can be sent again and is accepted.
C19_FailedChunkKeepsSession ==
    /\ [](/\ C19_Failing
          /\ C19_Resend
          /\ Len(photo_buffer) <= max_photo_size)
    /\ [][C19_Step]_vars

\* A photo was received, then the next one failed its hash check: the
\* first is still there and the accumulator is empty.
C19_Witness ==
    /\ current_session.active
    /\ response = Error("hash_mismatch")
    /\ current_session.photos = <<ClientPhoto>>
    /\ current_session.num_photos > 1
    /\ current_session.photos_received = 1
    /\ photo_buffer = <<>>

\* ------------------------------------------------- claims: the command table

\* The nine commands of the command table.
CommandTable ==
    { "BEGIN_UPSERT", "PHOTO_CHUNK", "END_UPSERT", "UPDATE_PERIOD",
      "DEACTIVATE", "DELETE", "GET_STATUS", "LIST_EMPLOYEES",
      "GET_AUDIT_LOGS" }

\* A complete command of the given type for employee "e1", with fresh
\* credentials.
TableCommand(command) ==
    Signed([Command(command, "e1", PeriodA, 1) EXCEPT
               !.data = b64encode(PlainPhoto(1)), !.is_last = TRUE],
           SecretKey, Nonce(now, MaxNonces + 1))

\* C20: each of the nine commands of the command table, received as a
\* complete frame, is routed to its handler and none is answered as an
\* unknown command; an authorized DELETE of an existing employee removes it
\* and answers OK.
C20_CommandsRouted ==
    \A command \in CommandTable :
        LET r == process_command(Ble, TableCommand(command), now, 0)
        IN  /\ r.response # Error("unknown_command")
            /\ (/\ command = "DELETE"
                /\ employees["e1"].present
                /\ admin_mode_enabled
                /\ hmac_enabled
                /\ shared_secret = SecretKey)
                  => /\ r.response.type = "OK"
                     /\ ~r.B.employees["e1"].present

\* -------------------------------------------------- claims: notifications

RECURSIVE Payloads(_)
Payloads(fragments) ==
    IF fragments = <<>> THEN <<>>
    ELSE Tail(Head(fragments)) \o Payloads(Tail(fragments))

CeilDiv(a, b) == (a + b - 1) \div b

Fragmented(data, out) ==
    /\ Len(out) = CeilDiv(Len(data), MAX_NOTIFICATION_SIZE - 1)
    /\ \A k \in 1 .. Len(out) :
          /\ Len(out[k]) <= MAX_NOTIFICATION_SIZE
          /\ out[k][1] = (IF k < Len(out) THEN 1 ELSE 0)
    /\ Payloads(out) = data

C21_Step ==
    (notifying /\ <<last_message', signals'>> # <<last_message, signals>>)
    => LET data == encode_utf8(last_message')
       IN  IF Len(data) > MAX_NOTIFICATION_SIZE
           THEN Fragmented(data, signals')
           ELSE signals' = <<data>>

\* C21: a response of B bytes notified to a subscribed client is emitted,
\* when B exceeds the notification budget, as exactly
\* ceil(B / (budget - 1)) fragments of at most budget bytes, every fragment
\* but the last starting with the flag 1 and the last with the flag 0, the
\* payloads after the flags concatenating to the response; a response of at
\* most budget bytes is emitted as one notification without a flag.
C21_FragmentsRoundTrip == [][C21_Step]_vars

C21_Witness ==
    /\ Len(encode_utf8(last_message)) > 2 * MAX_NOTIFICATION_SIZE
    /\ Len(encode_utf8(last_message)) > Len(last_message)
    /\ Len(signals) >= 3
    /\ chrc_value = signals[Len(signals)]

\* ---------------------------------------------- claims: button and audit log

\* A poll of the button monitor accepts a press.
ButtonAccepted ==
    /\ callers["button"].pc = "idle"
    /\ last_button_time' # last_button_time

ButtonRow(stored) ==
    [event_type |-> "exit_button", result |-> "granted", stored |-> stored]

\* The button callback is in its unlock() call and leaves it.
ButtonCalls ==
    /\ callers["button"].pc = "unlock"
    /\ callers'["button"].pc # "unlock"

C22_Calls ==
    /\ ButtonAccepted
         => /\ callers'["button"].pc = "unlock"
            /\ callers'["button"].cause = ButtonCause
            /\ callers'["button"].audit \in {ButtonRow(TRUE), ButtonRow(FALSE)}
    /\ ButtonCalls
         => /\ lastUnlock' = [caller |-> "button", flag |-> is_unlocking,
                              start |-> ~is_unlocking]
            /\ ~is_unlocking => (is_unlocking'
                                 /\ callers'["button"].pc = "spawn")
    /\ (callers["button"].pc = "spawn" /\ callers'["button"].pc # "spawn")
         => \E w \in Workers :
               workers'[w] = [pc |-> "unlock", cause |-> ButtonCause]

\* The worker started for the button drives the relay active.
C22_Drives ==
    \A w \in Workers :
       (workers[w] = [pc |-> "unlock", cause |-> ButtonCause]
        /\ workers'[w] # workers[w])
         => (relay' /\ relayCause' = ButtonCause)

\* Nothing the recognition loop does holds the callback or its worker up:
\* the step each of them is at can be taken.
C22_NotHeldUp ==
    /\ callers["button"].pc = "unlock" => ENABLED UnlockEnter("button")
    /\ callers["button"].pc = "spawn" => ENABLED UnlockSpawn("button")
    /\ \A w \in Workers :
          workers[w].pc = "unlock" => ENABLED WorkerUnlock(w)

\* C22, with the audit record best-effort: every accepted exit-button press
\* makes the callback append an exit_button/granted audit record, which is
\* stored unless the append fails, and then call unlock(), whatever the
\* recognition loop is doing; a call that finds no unlock in flight starts a
\* worker, which drives the relay active.
C22_ButtonIndependent ==
    /\ []C22_NotHeldUp
    /\ [][C22_Calls /\ C22_Drives]_vars

\* C22 witness: a press was accepted after the recognition was stopped for
\* good, its audit record was not stored, and its unlock() call found no
\* unlock in flight and is starting a worker.
C22_Witness ==
    /\ callers["pipeline"].pc = "terminated"
    /\ error_count = max_consecutive_errors
    /\ callers["button"].during = "terminated"
    /\ callers["button"].audit = ButtonRow(FALSE)
    /\ callers["button"].pc = "spawn"
    /\ lastUnlock = [caller |-> "button", flag |-> FALSE, start |-> TRUE]

\* C22 as stated: every accepted exit-button press leads to an
\* exit_button/granted audit record.
C22_RecordStored ==
    [][ButtonAccepted => callers'["button"].audit = ButtonRow(TRUE)]_vars

\* The recognition loop has made a decision and logged it.
FaceDecided ==
    /\ callers["pipeline"].pc = "idle"
    /\ callers'["pipeline"].audit.event_type = "face_recognition"

FaceRow(granted, stored) ==
    [event_type |-> "face_recognition",
     result |-> IF granted THEN "granted" ELSE "denied",
     stored |-> stored]

\* The positions at which a caller acts on the decision it has logged.
Acting == {"check", "unlock", "spawn", "denied"}

C23_Step ==
    /\ FaceDecided
         => /\ call'.op = "attempt"
            /\ callers'["pipeline"].audit
                 \in {FaceRow(call'.granted, TRUE), FaceRow(call'.granted, FALSE)}
    /\ \A c \in Callers :
          (callers[c].pc \in Acting /\ callers'[c].pc \in Acting)
            => callers'[c].audit = callers[c].audit
    /\ (callers["pipeline"].pc = "unlock" /\ callers'["pipeline"].pc # "unlock")
         => /\ call.granted
            /\ callers["pipeline"].audit \in {FaceRow(TRUE, TRUE),
                                              FaceRow(TRUE, FALSE)}
            /\ lastUnlock'.caller = "pipeline"
    /\ ButtonCalls
         => callers["button"].audit \in {ButtonRow(TRUE), ButtonRow(FALSE)}

\* C23: every face decision of process_access_attempt in the recognition
\* loop is followed by exactly one audit append, whose result is the
\* decision; the append comes after the decision and before the unlock()
\* call for that decision, and the exit-button callback appends its record
\* before it calls unlock().
C23_AuditBeforeUnlock == [][C23_Step]_vars

\* C23 witness: a granted face decision was logged and its unlock() call is
\* next, while the button callback has logged its press and is at its own
\* unlock() call.
C23_Witness ==
    /\ callers["pipeline"].pc = "unlock"
    /\ callers["pipeline"].audit = FaceRow(TRUE, TRUE)
    /\ call.granted
    /\ callers["button"].pc = "unlock"
    /\ callers["button"].audit = ButtonRow(TRUE)

C24_Step ==
    /\ (FaceDecided /\ ~callers'["pipeline"].audit.stored)
         => /\ callers'["pipeline"].pc = after_decision(call'.granted)
            /\ error_count' = error_count
    /\ (ButtonAccepted /\ ~callers'["button"].audit.stored)
         => callers'["button"].pc = "unlock"
    /\ (callers["pipeline"].pc = "check" /\ ~callers["pipeline"].audit.stored
        /\ callers'["pipeline"].pc # "check")
         => callers'["pipeline"].pc = (IF is_unlocking THEN "sleep" ELSE "unlock")
    /\ (callers["pipeline"].pc \in {"sleep", "denied"}
        /\ callers'["pipeline"].pc # callers["pipeline"].pc)
         => callers'["pipeline"].pc = "idle"
    /\ callers'["pipeline"].pc \in {"error_sleep", "backoff", "terminated"}
         => callers["pipeline"].pc \in {"idle", "open", callers'["pipeline"].pc}

\* C24: when the audit append fails the decision stands: the recognition
\* loop goes on as after a stored record (a granted decision to the unlock,
\* a denied one to its short sleep, then the next iteration) with the error
\* count unchanged, and the button callback goes on to unlock().
C24_AuditFailureSwallowed == [][C24_Step]_vars

\* C24 witness: the audit append of a granted face decision failed, the loop
\* is at its unlock() call with no error counted, and the button callback,
\* whose append failed too, has started a worker.
C24_Witness ==
    /\ callers["pipeline"].pc = "unlock"
    /\ callers["pipeline"].audit = FaceRow(TRUE, FALSE)
    /\ error_count = 0
    /\ lastUnlock = [caller |-> "button", flag |-> FALSE, start |-> TRUE]
    /\ is_unlocking

\* ------------------------------------------------- claims: the nonce ledger

\* The size limit of the ledger holds after every call.
LedgerBounded == Cardinality(used_nonces) <= NonceLimit

\* C25: after every verify_hmac call the ledger holds at most its limit of
\* nonces, and an overflow evicts only the oldest accepted nonces: the nonce
\* the call has just accepted is still in the ledger after it.
C25_RecentKept ==
    /\ []LedgerBounded
    /\ [][(acceptedNonces' \ acceptedNonces) \subseteq used_nonces']_vars

\* What verify_hmac answers, at clock value t, to the commands whose nonce
\* is outside the window or has no integer prefix: rejected, the ledger as
\* it was; and to a signed command exactly at the edge of the window:
\* verified unless its nonce is in the ledger.
FreshnessAt(t) ==
    \A cmd \in FreshnessCommands(now) :
       LET v == verify_hmac(Ble, cmd, t)
       IN  /\ (~cmd.nonce.parses \/ Abs(t - cmd.nonce.ts) > NonceMaxAgeSec)
                => (~v.ok /\ v.used_nonces = used_nonces)
           /\ (cmd.nonce.parses /\ Abs(t - cmd.nonce.ts) = NonceMaxAgeSec)
                => /\ v.reason # "stale"
                   /\ cmd.nonce \notin used_nonces
                        => (v.ok /\ v.used_nonces = used_nonces \cup {cmd.nonce})

\* A step that processes a command and answers that the signature check
\* failed leaves the ledger as it was.
C26_Step ==
    (notifying /\ notifying' /\ response' = Error("hmac_failed"))
      => used_nonces' = used_nonces

ValidateReturned == call.op = "validate"

\* The stored timestamp under key is there and is an ISO-8601 date.
StampParses(employee, key) ==
    \E stamp \in PeriodStamps \ {BadIso} : (key :> stamp) @@ employee = employee

\* The instant a stored timestamp names, one without an offset taken as UTC.
ReadAsUtc(stamp) ==
    IF "utcoffset" \in DOMAIN stamp THEN stamp.t - stamp.utcoffset ELSE stamp.t

BothParse == StampParses(call.employee, "access_start") /\ StampParses(call.employee, "access_end")
PeriodStart == ReadAsUtc(call.employee.access_start)
PeriodEnd == ReadAsUtc(call.employee.access_end)

\* What holds of every answer whatever the order of the two bounds: the
\* period check passes exactly inside the window, a time before the start
\* is "not yet valid", a dict whose timestamps do not both parse is denied by
\* the period check and by validate_access, and so is a dict without an
\* active flag by validate_access.
C27_Common ==
    /\ call.period_ok <=> (BothParse /\ PeriodStart <= call.t /\ call.t <= PeriodEnd)
    /\ (BothParse /\ call.t < PeriodStart)
          => (~call.period_ok /\ call.period_reason = "not_yet_valid")
    /\ ~BothParse => (~call.period_ok /\ call.period_reason = "period_error" /\ ~call.ok)
    /\ "is_active" \notin DOMAIN call.employee
          => (~call.ok /\ call.reason = "deactivated")
    /\ call.ok => call.period_ok

CooldownGate(pre, c, held, accepted) ==
    /\ (pre.last_attempt_time # 0 /\ c < pre.last_attempt_time + cooldown_sec)
          => (held /\ UNCHANGED policyVars)
    /\ c >= pre.last_attempt_time + cooldown_sec => ~held
    /\ accepted => last_attempt_time' = c

\* A step that is a direct check_rate_limit call.
C28_Direct ==
    (call'.op = "rate" /\ now' = now)
        => CooldownGate(Policy, call'.t,
                        ~call'.ok /\ call'.reason = "cooldown", call'.ok)

\* A step that is a process_access_attempt call which got as far as its
\* check_rate_limit call.
C28_Inside ==
    (call'.op = "attempt" /\ call' # call /\ Len(call'.ran) >= 2)
        => CooldownGate(call'.pre, call'.t2,
                        Len(call'.ran) = 2 /\ call'.reason = "cooldown",
                        Len(call'.ran) >= 3)

\* C28: after check_rate_limit accepts an attempt at time t, every
\* check_rate_limit call at a time earlier than t + cooldown_sec is rejected
\* with a cooldown reason, for any identity or none, and leaves
\* last_attempt_time and the per-identity timestamp lists unchanged; the
\* first call at or after t + cooldown_sec passes the cooldown gate.
C28_Cooldown == [][C28_Direct /\ C28_Inside]_vars

\* A direct call for an identity, made after the accepted call but before
\* the cooldown is over, has been held back.
C28_Witness ==
    /\ call.op = "rate"
    /\ call.employee_id # None
    /\ last_attempt_time # 0
    /\ call.t > last_attempt_time
    /\ call.t < last_attempt_time + cooldown_sec
    /\ ~call.ok
    /\ call.reason = "cooldown"

\* ------------------------------------------- claims: the candidates' list

\* The recognition loop has just read the candidates from the store.
SnapshotTaken == snapshot' # snapshot

\* The employee is part of the list the call returned.
Listed(result, id) == result[id] # {}

\* C29: get_active_employees_with_embeddings returns exactly the employees
\* whose active flag is set and who own at least one embedding, each with
\* all of its stored embeddings: a deactivated employee and an employee
\* without embeddings never appear, so the matcher is never handed them.
C29_Step ==
    SnapshotTaken =>
        \A id \in Ids :
           LET rows   == EmbeddingsOf(Store, id)
               result == snapshot'.employees
           IN  /\ Listed(result, id)
                     <=> /\ db_employees[id].present
                         /\ db_employees[id].is_active
                         /\ rows # {}
               /\ Listed(result, id)
                     => /\ result[id] = VectorsOf(rows)
                        /\ Cardinality(result[id]) = Cardinality(rows)

C29_ActiveWithEmbeddings == [][C29_Step]_vars

\* A list has been read that names one employee with all of its vectors
\* while the other, deactivated, holds an embedding and is left out.
C29_Witness ==
    /\ snapshot.employees = get_active_employees_with_embeddings(Store)
    /\ \E id \in Ids :
          /\ Cardinality(snapshot.employees[id]) >= 2
          /\ \E other \in Ids \ {id} :
                /\ db_employees[other].present
                /\ ~db_employees[other].is_active
                /\ EmbeddingsOf(Store, other) # {}
                /\ snapshot.employees[other] = {}

\* ----------------------------------------------------- claims: the matcher

\* The similarities of all candidate embeddings to the query, by position:
\* embedding j of pair i.
Positions ==
    { p \in (1 .. Len(best_match.employee_embeddings)) \X (1 .. MaxVectors) :
         p[2] <= Len(best_match.employee_embeddings[p[1]][2]) }
SimilarityAt(p) ==
    cosine_similarity(best_match.query_embedding,
                      best_match.employee_embeddings[p[1]][2][p[2]])

\* The greatest similarity over all candidate embeddings (0 without any)
\* and the first pair, in iteration order, that holds it.
Greatest ==
    IF Positions = {} THEN 0
    ELSE CHOOSE g \in { SimilarityAt(p) : p \in Positions } :
            \A p \in Positions : SimilarityAt(p) <= g
FirstHolder ==
    LET i == CHOOSE i \in 1 .. Len(best_match.employee_embeddings) :
                /\ \E p \in Positions : p[1] = i /\ SimilarityAt(p) = Greatest
                /\ \A p \in Positions :
                      SimilarityAt(p) = Greatest => p[1] >= i
    IN  best_match.employee_embeddings[i][1]

Holder(employee) ==
    [employee_id |-> employee.employee_id, score |-> Greatest,
     display_name |-> employee.display_name]
Nobody(score) == [employee_id |-> None, score |-> score, display_name |-> None]

LastFrame == frames[Len(frames)]

\* How far apart two faces are, along the axis they differ most on.
Apart(a, b) == Max(Abs(a[1] - b[1]), Abs(a[2] - b[2]))

\* The last n frames each show a face, each after the first of them within
\* the tolerance of the face in the frame before.
StableRun(n) ==
    /\ Len(frames) >= n
    /\ \A i \in (Len(frames) - n + 1) .. Len(frames) :
          /\ frames[i].face # NoFace
          /\ i > Len(frames) - n + 1 =>
                Apart(frames[i].face, frames[i - 1].face) < FACE_POSITION_TOLERANCE

\* The iteration got past the stability check.
PastGate(step) == step \in {"align_failed", "embed_failed", "raised", "decided"}

\* The recognition loop is between a decision and the end of its iteration.
AfterFaceDecision == callers["pipeline"].pc \in {"check", "unlock", "spawn", "denied", "sleep"}

\* C31: the loop gets past the stability check only with the count at the
\* threshold or above, so every decision on a face and every unlock it leads
\* to comes after a run of threshold-many frames in a row that each show a
\* face within the tolerance of the one before; a frame without a face
\* leaves the count at 0, a face outside the tolerance leaves it at 1.
C31_StabilityGate ==
    /\ \A i \in 1 .. Len(frames) :
          /\ frames[i].face = NoFace => frames[i].count = 0
          /\ (/\ i > 1
              /\ frames[i].face # NoFace
              /\ frames[i - 1].face # NoFace
              /\ Apart(frames[i].face, frames[i - 1].face) >= FACE_POSITION_TOLERANCE)
             => frames[i].count = 1
          /\ PastGate(frames[i].step) => frames[i].count >= FACE_STABLE_THRESHOLD
    /\ (frames # <<>> /\ PastGate(LastFrame.step)) => StableRun(FACE_STABLE_THRESHOLD)
    /\ (frames # <<>> /\ LastFrame.step = "no_face") => face_stable_count = 0
    /\ AfterFaceDecision =>
          /\ frames # <<>>
          /\ LastFrame.step = "decided"
          /\ StableRun(FACE_STABLE_THRESHOLD)

\* A face that drifted, each frame within the tolerance of the one before and
\* the last not within the tolerance of the first, is granted and the loop is
\* about to unlock.
C31_Witness ==
    /\ callers["pipeline"].pc = "unlock"
    /\ Len(frames) = FACE_STABLE_THRESHOLD
    /\ LastFrame.step = "decided"
    /\ Apart(frames[1].face, LastFrame.face) >= FACE_POSITION_TOLERANCE

\* C32: when the embedder fails on a stable face the tracker is reset: the
\* count is 0 after that iteration, and none of the frames that follow it
\* within one stability window gets past the stability check.
C32_ResetOnEmbeddingFailure ==
    \A i \in 1 .. Len(frames) :
        frames[i].step = "embed_failed" =>
            /\ i = Len(frames) => face_stable_count = 0
            /\ \A j \in (i + 1) .. Len(frames) :
                  j - i < FACE_STABLE_THRESHOLD => ~PastGate(frames[j].step)

\* ------------------------------------------------- claims: the supervisor

\* The camera did not open again after max_frame_errors failed reads in a
\* row, and no frame was read since.
ReopenFailed == consecutive_frame_errors >= max_frame_errors

\* C33: after max_frame_errors failed reads in a row the loop releases the
\* camera and opens it again, and when that fails the loop ends with an error
\* that _recognition_loop_wrapper counts: the loop is not in an iteration, or
\* asleep between two, with the reopen failed.
C33_ReopenFailureSurfaces ==
    /\ consecutive_frame_errors <= max_frame_errors
    /\ ReopenFailed =>
          /\ callers["pipeline"].pc \in {"backoff", "open", "terminated"}
          /\ error_count >= 1
          /\ exits # <<>> /\ exits[Len(exits)] = "error"

\* Number of recognition_loop calls in a row, up to the latest, that ended
\* with an error.
RECURSIVE TrailingErrors(_)
TrailingErrors(log) ==
    IF log = <<>> \/ log[Len(log)] # "error" THEN 0
    ELSE 1 + TrailingErrors(SubSeq(log, 1, Len(log) - 1))
ErrorsInARow == TrailingErrors(exits)

\* The wait after the n-th error in a row: 5, 10, 20, 40, 60, 60, ...
BackoffSeconds(n) ==
    IF n = 1 THEN 5 ELSE IF n = 2 THEN 10 ELSE IF n = 3 THEN 20
    ELSE IF n = 4 THEN 40 ELSE 60

\* recognition_loop has just ended with an error that the wrapper handles.
LoopErrorStep == Len(exits') > Len(exits) /\ exits'[Len(exits')] = "error"

C34_Counts ==
    /\ error_count = ErrorsInARow
    /\ callers["pipeline"].pc = "terminated" <=> ErrorsInARow >= 10
    /\ callers["pipeline"].pc = "backoff" => ErrorsInARow \in 1 .. 9

C34_Step ==
    /\ LoopErrorStep /\ TrailingErrors(exits') < 10 =>
          /\ callers'["pipeline"].pc = "backoff"
          /\ callers'["pipeline"].wake = now + BackoffSeconds(TrailingErrors(exits'))
    /\ callers["pipeline"].pc = "backoff" /\ callers'["pipeline"].pc # "backoff" =>
          /\ callers'["pipeline"].pc = "open"
          /\ now >= callers["pipeline"].wake

\* C34: after the n-th error in a row of the recognition loop the wrapper
\* waits min(5 * 2^(n-1), 60) seconds (5, 10, 20, 40, 60, 60, ...) before it
\* calls the loop again, it gives the loop up exactly when 10 calls in a row
\* ended with an error, and a call that ends without an error starts the
\* count again.
C34_Backoff == [](C34_Counts) /\ [][C34_Step]_vars

\* The loop is restarted after the sixth error in a row, the wait capped.
C34_Witness ==
    /\ callers["pipeline"].pc = "open"
    /\ ErrorsInARow = 6
    /\ now >= StartTime + 5 + 10 + 20 + 40 + 60 + 60

\* The loop is given up after the tenth error in a row.
C34_WitnessAbandoned ==
    /\ callers["pipeline"].pc = "terminated"
    /\ ErrorsInARow = 10

\* ------------------------------------------------- claims: the new session

\* The payloads of the complete frames the bytes buf start with.
RECURSIVE FramePayloads(_)
FramePayloads(buf) ==
    IF Len(buf) < HEADER_SIZE \/ Len(buf) < HEADER_SIZE + HeaderLen(buf)
    THEN <<>>
    ELSE <<SubSeq(buf, HEADER_SIZE + 1, HEADER_SIZE + HeaderLen(buf))>>
         \o FramePayloads(SubSeq(buf, HEADER_SIZE + HeaderLen(buf) + 1, Len(buf)))

\* The bytes the write of this step carries.
Written == SubSeq(wire, 1, Len(wire) - Len(wire'))

\* A write reaches a receiver that waits for a header and remembers a
\* sequence number above 0, and the write starts with a header of sequence
\* number 0.
NewSessionWrite ==
    /\ Len(wire') < Len(wire)
    /\ rx_state = "WAIT_HEADER" /\ rx_buffer = <<>>
    /\ last_seq > 0
    /\ Len(Written) >= HEADER_SIZE
    /\ Written[HEADER_SIZE] = 0

\* C35: a header with sequence number 0 parsed while the remembered number
\* is above 0 starts a new session: the frame it heads is delivered, and so
\* is every frame whose bytes follow it in the buffer (stated for clients
\* that send well-formed frames only).
C35_NewSessionDelivers ==
    [][(NewSessionWrite /\ wellFormed) =>
           delivered' = delivered \o FramePayloads(Written)]_vars

\* ------------------------------------------------- claims: parse errors

\* The write of this step carries one whole frame to a receiver that waits
\* for a header with an empty buffer, and the frame is not a repeated one.
OneFrameWrite ==
    /\ Len(wire') < Len(wire)
    /\ rx_state = "WAIT_HEADER" /\ rx_buffer = <<>>
    /\ Len(Written) >= HEADER_SIZE
    /\ Len(Written) = HEADER_SIZE + HeaderLen(Written)
    /\ ~IsDuplicate(HeaderSeq(Written), last_seq)

\* The frame has a header with length 0, or a payload that is no UTF-8 or
\* no JSON.
ParseError(frame) ==
    \/ HeaderLen(frame) = 0
    \/ Decode(SubSeq(frame, HEADER_SIZE + 1, Len(frame))) \in {"badjson", "badutf8"}

\* The responses the server notifies during the write of this step.
NotifiedInStep ==
    Drain([Receiver EXCEPT !.timer = TRUE, !.buf = @ \o Written]).sent

\* C36: a frame that fails to parse (malformed JSON, invalid UTF-8, a header
\* with an invalid length) leaves the receiver in WAIT_HEADER with an empty
\* buffer, and exactly one ERROR notification is sent for it.
C36_ParseErrorAnswered ==
    [][(OneFrameWrite /\ ParseError(Written)) =>
           /\ rx_state' = "WAIT_HEADER"
           /\ rx_buffer' = <<>>
           /\ Len(NotifiedInStep) = 1
           /\ NotifiedInStep[1].type = "ERROR"
           /\ response' = NotifiedInStep[1]]_vars

\* ------------------------------------------------- claims: cleanup

\* A cleanup() call has returned.
CleanedUp == cleaning.returned >= 1

\* C37: once cleanup() has returned the button monitor is stopped and the
\* relay is inactive, and no later step changes that, whether an unlock
\* worker was under way during the cleanup or unlock() is called after it;
\* a second cleanup() runs to its end and changes nothing.
C37_CleanupFinal ==
    /\ [](CleanedUp => ~button_running /\ ~relay)
    /\ [][CleanedUp => /\ relay' = relay
                       /\ button_running' = button_running
                       /\ line_requested' = line_requested]_vars

\* ------------------------------------------------- claims: revocation

\* The store holds no active row for the employee.
Revoked(id) == ~db_employees[id].present \/ ~db_employees[id].is_active

\* The recognition loop reads the matched employee's row and decides.
LookupStep ==
    callers["pipeline"].pc = "lookup" /\ callers'["pipeline"].pc # "lookup"

\* A deactivate_employee or delete_employee call for id returns True, which
\* the handler answers with OK.
AnsweredOk(id) ==
    /\ db_return' # db_return
    /\ db_return'.op \in {"deactivate_employee", "delete_employee"}
    /\ db_return'.employee_id = id
    /\ db_return'.value = TRUE

C38_Step ==
    /\ (LookupStep /\ call'.granted) =>
          /\ call'.employee.employee_id \in Ids
          /\ ~Revoked(call'.employee.employee_id)
    /\ \A id \in Ids :
          /\ AnsweredOk(id) => Revoked(id)'
          /\ (Revoked(id) /\ ~Revoked(id)') =>
                /\ db_return'.op = "upsert_employee"
                /\ db_return'.employee_id = id

\* C38: once DEACTIVATE or DELETE for an employee is answered OK, no face
\* decision that reads the employee's row afterwards grants that employee,
\* also when the candidates were listed before; this lasts until the
\* employee is enrolled again.
C38_RevokedNotGranted == [][C38_Step]_vars

\* The recognition loop listed employee "e1", the employee was deactivated
\* with the answer OK, and the decision on the match read the row afterwards
\* and denied.
C38_Witness ==
    /\ callers["pipeline"].pc = "denied"
    /\ call.op = "attempt"
    /\ call.employee.employee_id = "e1"
    /\ ~call.employee.is_active
    /\ ~call.granted
    /\ snapshot.employees["e1"] # {}
    /\ db_return.op = "deactivate_employee" /\ db_return.value = TRUE

\* ------------------------------------------------- claims: dropped requests

\* An unlock request is skipped or dropped: the recognition loop finds
\* is_unlocking() true after a grant and does not call unlock(), or a
\* caller's unlock() finds the flag set and returns.
RequestDropped ==
    \/ /\ callers["pipeline"].pc = "check"
       /\ callers'["pipeline"].pc \notin {"check", "unlock"}
    \/ \E c \in Callers :
          /\ callers[c].pc = "unlock"
          /\ callers'[c].pc \notin {"unlock", "spawn"}

\* The unlock under way holds the relay active or is about to drive it
\* active: its thread has not called _set_lock_state(True) yet, or is about
\* to be started.
HoldsOrWillDrive ==
    \/ relay
    \/ \E w \in Workers : workers[w].pc = "unlock"
    \/ \E c \in Callers : callers[c].pc = "spawn"

C39_Step == RequestDropped => HoldsOrWillDrive

\* C39: a granted face decision or an accepted button press finds the relay
\* active or is followed by the relay becoming active: an unlock request is
\* skipped or dropped only while the unlock under way holds the relay active
\* or is about to drive it active, never after the worker has re-locked the
\* relay and before it clears the in-progress flag.
C39_DroppedOnlyWhileOpen == [][C39_Step]_vars

\* ------------------------------------------------- claims: the photo count

\* C40: in every session state the received count equals the number of
\* photos stored in the session and never exceeds the expected count
\* num_photos: a completed photo sent after num_photos photos were received
\* is not added, so the session can still be completed by END_UPSERT.
C40_ReceivedWithinExpected ==
    current_session.active =>
       /\ current_session.photos_received = Len(current_session.photos)
       /\ current_session.photos_received <= current_session.num_photos

====
